---- MODULE Spec2Model ----
(***************************************************************************)
(* A model of the configuration discovery, merge and validation pipeline   *)
(* of ts-check: config-finder (determineRelevantConfigs, mergeConfigs),    *)
(* node-modules-resolver (incorporateDependencyConfigs), compiler-options  *)
(* (validateCompilerOptions) and common-issues (analyzeCommonIssues,       *)
(* applyFix, the auto-fix loop of TSConfigAnalyzer.analyzeConfig).         *)
(*                                                                         *)
(* A JavaScript object is a function whose DOMAIN is the set of its own    *)
(* keys; an array is a sequence; a path is the sequence of its segments.   *)
(* Each component has its own specification (SpecMerge, SpecFold,          *)
(* SpecValidate, SpecIssues); the variables of the other components stay   *)
(* at their idle values.                                                   *)
(***************************************************************************)
EXTENDS Naturals, Integers, Sequences, FiniteSets, TLC

VARIABLES
  \* ---- config-finder ----
  fileSystem,       \* path -> parsed content of the configuration file at that path
  configFiles,      \* the discovered list handed to determineRelevantConfigs
  configFiles0,     \* history: the discovered list as the caller built it
  relevantConfigs,  \* determineRelevantConfigs' result list (mergeConfigs' configPaths)
  configs,          \* mergeConfigs' private array of loaded configurations
  mergedConfig,     \* mergeConfigs' accumulator
  idx,              \* loop index of the loop the pipeline is in
  mpc,              \* position in findAndMergeConfigs
  runs,             \* the effective configurations of the completed runs
  \* ---- node-modules-resolver ----
  heap,             \* address -> object (references make aliasing visible)
  projectConfig,    \* address of the configuration passed in
  projectConfig0,   \* history: the value of the configuration passed in, at the call
  dependencyConfigs,  \* the dependency map, in insertion order: <<name, config>>
  dependencyConfigs0, \* history: the dependency map at the call
  updatedConfig,    \* address of the configuration being built / returned
  depIdx,           \* index of the dependency being folded
  fpc,              \* position in incorporateDependencyConfigs
  \* ---- compiler-options ----
  options,          \* the settings object handed to validateCompilerOptions
  validation,       \* its result: [valid, errors]
  vpc,              \* position in validateCompilerOptions
  \* ---- common-issues / auto-fix loop ----
  config,           \* the configuration held by the analyzer (this.config)
  analyzerOptions,  \* the analyzer's options: [ignoreErrors, autoFix]
  config0,          \* history: the configuration when analysis of common issues began
  detected,         \* analyzeCommonIssues(this.config) taken before the auto-fix loop
  fixIdx,           \* the auto-fix loop's i
  lastFix,          \* the last applyFix call: [input, index, output]
  ipc,              \* position in the common-issue part of analyzeConfig
  \* ---- config-finder: findTSConfigs ----
  tree,             \* the directory tree under projectRoot: a set of [path, kind]
  scanStack,        \* the active scanDirectory calls: [dir, pending], innermost last
  scanned,          \* findTSConfigs' configFiles, the list being built
  dpc,              \* position in findTSConfigs
  \* ---- project-structure: analyzeProjectStructure ----
  structure,        \* the ProjectStructure handed in: [files]
  tsconfig,         \* the configuration handed in
  structureAnalysis,  \* the messages returned
  spc,              \* position in analyzeProjectStructure
  \* ---- tsconfig-analyzer: the analyze command and TSConfigAnalyzer ----
  cliOptions,       \* options of the run: [ignoreErrors, autoFix]
  analysisCount,    \* number of analyzeTSConfig calls the analyze command has made
  projectRoot,      \* what the file system holds under it: [merged, failAt, files, deps]
  thisConfig,       \* this.config: [present, value]
  thisStructure,    \* this.projectStructure: [present, files]
  effective,        \* history: this.config when analyzeConfig began
  errors,           \* handleValidationErrors' parameter
  errIdx,           \* index of the error being handled
  correctedErrors,  \* handleValidationErrors' result list
  shouldCorrect,    \* the answer to the yes/no question for the current error
  correction,       \* the replacement value promptUser returned for the current error
  outstanding,      \* the ids of the promptUser calls waiting in rl.question
  prompts,          \* history: the promptUser calls of this analysis: [id, answer, saved]
  userInputs,       \* the answers saved in ts-debug.json: id -> answer
  validated,        \* result of this.validateCompilerOptions(): [valid, errors]
  result,           \* result of analyzeConfig: [returned, valid, messages, report, suggestedFixes]
  autoFixIdx,       \* the auto-fix loop's i
  apc               \* position in the analyze command

mergeVars == <<fileSystem, configFiles, configFiles0, relevantConfigs, configs,
               mergedConfig, idx, mpc, runs>>
foldVars == <<heap, projectConfig, projectConfig0, dependencyConfigs,
              dependencyConfigs0, updatedConfig, depIdx, fpc>>
validateVars == <<options, validation, vpc>>
issueVars == <<config, config0, analyzerOptions, detected, fixIdx, lastFix, ipc>>
discoverVars == <<tree, scanStack, scanned, dpc>>
structureVars == <<structure, tsconfig, structureAnalysis, spc>>
analyzerVars == <<cliOptions, analysisCount, projectRoot, thisConfig, thisStructure, effective,
                  errors, errIdx, correctedErrors, shouldCorrect, correction, outstanding,
                  prompts, userInputs, validated, result, autoFixIdx, apc>>
vars == <<mergeVars, foldVars, validateVars, issueVars, discoverVars, structureVars,
          analyzerVars>>

\* What the actions of one component leave alone.
notMergeVars == <<foldVars, validateVars, issueVars, discoverVars, structureVars,
  analyzerVars>>
notFoldVars == <<mergeVars, validateVars, issueVars, discoverVars, structureVars,
  analyzerVars>>
notValidateVars == <<mergeVars, foldVars, issueVars, discoverVars, structureVars,
  analyzerVars>>
notIssueVars == <<mergeVars, foldVars, validateVars, discoverVars, structureVars,
  analyzerVars>>
notDiscoverVars == <<mergeVars, foldVars, validateVars, issueVars, structureVars,
  analyzerVars>>
notStructureVars == <<mergeVars, foldVars, validateVars, issueVars, discoverVars,
  analyzerVars>>
notAnalyzerVars == <<mergeVars, foldVars, validateVars, issueVars, discoverVars,
  structureVars>>

----------------------------------------------------------------------------
(* Generic helpers for objects and arrays.                                 *)

\* The empty object {}.
EmptyObject == [k \in {} |-> 0]

\* obj.key is defined (own property).
Has(obj, key) == key \in DOMAIN obj

\* { ...a, ...b }: b's keys win.
Spread(a, b) ==
  [k \in (DOMAIN a) \cup (DOMAIN b) |-> IF k \in DOMAIN b THEN b[k] ELSE a[k]]

\* obj with obj[key] = value assigned.
Assign(obj, key, value) ==
  [k \in (DOMAIN obj) \cup {key} |-> IF k = key THEN value ELSE obj[k]]

\* Array.prototype.reverse.
Reverse(s) == [i \in 1..Len(s) |-> s[Len(s) + 1 - i]]

\* The elements of an array.
Range(s) == {s[i] : i \in DOMAIN s}

\* Number of occurrences of e in array s.
RECURSIVE Count(_, _)
Count(s, e) ==
  IF s = <<>> THEN 0
  ELSE (IF Head(s) = e THEN 1 ELSE 0) + Count(Tail(s), e)

\* Sequences over S of length lo..hi without repeated elements.
DistinctSeqs(S, lo, hi) ==
  UNION {{s \in [1..n -> S] : \A i, j \in 1..n : i # j => s[i] # s[j]} : n \in lo..hi}

----------------------------------------------------------------------------
(* JSON values of compiler options, tagged with their JavaScript type.     *)

Str(x) == [t |-> "string", s |-> x, b |-> FALSE, a |-> <<>>]
Bool(x) == [t |-> "boolean", s |-> "", b |-> x, a |-> <<>>]
Num(x) == [t |-> "number", s |-> x, b |-> FALSE, a |-> <<>>]
Null == [t |-> "null", s |-> "", b |-> FALSE, a |-> <<>>]
Arr(x) == [t |-> "array", s |-> "", b |-> FALSE, a |-> x]

----------------------------------------------------------------------------
(* config-finder: determineRelevantConfigs and mergeConfigs.               *)

\* Bounds of the discovered list.
MaxDiscovered == 3

CONFIG_FILE_NAMES ==
  <<"tsconfig.json", "tsconfig.app.json", "tsconfig.node.json", "jsconfig.json">>

\* Number.POSITIVE_INFINITY, above every index of CONFIG_FILE_NAMES.
POSITIVE_INFINITY == 1000

\* The result of Map.get for a missing key.
Undefined == -1

\* path.basename
basename(p) == p[Len(p)]

\* configPriority.get(fileName): the index in CONFIG_FILE_NAMES (from 0), or undefined.
configPriority(fileName) ==
  IF \E i \in DOMAIN CONFIG_FILE_NAMES : CONFIG_FILE_NAMES[i] = fileName
  THEN (CHOOSE i \in DOMAIN CONFIG_FILE_NAMES : CONFIG_FILE_NAMES[i] = fileName) - 1
  ELSE Undefined

\* configPriority.get(fileName) ?? Number.POSITIVE_INFINITY
priorityOf(configFile) ==
  IF configPriority(basename(configFile)) = Undefined
  THEN POSITIVE_INFINITY
  ELSE configPriority(basename(configFile))

\* Mutant of DetermineInsert: the new file is always appended.
DetermineInsertAlwaysPush(relevant, configFile) == Append(relevant, configFile)

\* Mutant of DetermineInsert: the file is inserted behind the last entry whose
\* priority is not above its own, which keeps the list sorted by rank.
DetermineInsertSorted(relevant, configFile) ==
  LET ahead == {i \in DOMAIN relevant : priorityOf(relevant[i]) <= priorityOf(configFile)}
      n == Cardinality(ahead)
  IN SubSeq(relevant, 1, n) \o <<configFile>> \o SubSeq(relevant, n + 1, Len(relevant))

\* Mutant of DetermineInsert: the priority is compared with <=, so a file of the
\* front's own rank is put before it.
DetermineInsertNonStrict(relevant, configFile) ==
  LET priority == priorityOf(configFile)
      configPriorityValue ==
        IF Len(relevant) > 0 THEN configPriority(basename(relevant[1])) ELSE Undefined
  IN IF Len(relevant) = 0
        \/ (configPriorityValue # Undefined /\ priority <= configPriorityValue)
     THEN <<configFile>> \o relevant
     ELSE Append(relevant, configFile)

\* One iteration of determineRelevantConfigs' loop: unshift when the list is empty
\* or the file's priority is strictly below the (defined) priority of the front,
\* push otherwise.
DetermineInsert(relevant, configFile) ==
  LET priority == priorityOf(configFile)
      configPriorityValue ==
        IF Len(relevant) > 0 THEN configPriority(basename(relevant[1])) ELSE Undefined
  IN IF Len(relevant) = 0
        \/ (configPriorityValue # Undefined /\ priority < configPriorityValue)
     THEN <<configFile>> \o relevant
     ELSE Append(relevant, configFile)

\* determineRelevantConfigs as a function of the discovered list.
RECURSIVE determineFrom(_, _)
determineFrom(relevant, rest) ==
  IF rest = <<>> THEN relevant
  ELSE determineFrom(DetermineInsert(relevant, Head(rest)), Tail(rest))

determineRelevantConfigs(files) == determineFrom(<<>>, files)

ARRAY_PROPS == <<"include", "exclude", "files">>

RESERVED_KEYS == {"compilerOptions", "include", "exclude", "files", "extends"}

\* mergedConfig.compilerOptions = {...mergedConfig.compilerOptions, ...config.compilerOptions}
MergeCompilerOptions(merged, cfg) ==
  IF Has(cfg, "compilerOptions")
  THEN Assign(merged, "compilerOptions",
              Spread(IF Has(merged, "compilerOptions")
                     THEN merged["compilerOptions"] ELSE EmptyObject,
                     cfg["compilerOptions"]))
  ELSE merged

\* Mutant of MergeArrayProp: the source's array replaces the accumulated one.
MergeArrayPropReplace(merged, cfg, prop) ==
  IF Has(cfg, prop) THEN Assign(merged, prop, cfg[prop]) ELSE merged

\* mergedConfig[prop] = [...(mergedConfig[prop] || []), ...config[prop]]
MergeArrayProp(merged, cfg, prop) ==
  IF Has(cfg, prop)
  THEN Assign(merged, prop,
              (IF Has(merged, prop) THEN merged[prop] ELSE <<>>) \o cfg[prop])
  ELSE merged

\* The loop over Object.entries(config) that assigns every non-reserved key.
MergeOtherProps(merged, cfg) ==
  [k \in (DOMAIN merged) \cup ((DOMAIN cfg) \ RESERVED_KEYS) |->
     IF k \in (DOMAIN cfg) \ RESERVED_KEYS THEN cfg[k] ELSE merged[k]]

\* The body of mergeConfigs' loop for one configuration.
MergeOne(merged, cfg) ==
  MergeOtherProps(
    MergeArrayProp(
      MergeArrayProp(
        MergeArrayProp(MergeCompilerOptions(merged, cfg), cfg, ARRAY_PROPS[1]),
        cfg, ARRAY_PROPS[2]),
      cfg, ARRAY_PROPS[3]),
    cfg)

\* Mutant of ReverseLoaded: the configurations are merged in selection order.
ReverseLoadedNot(paths, loaded) ==
  [configPaths |-> paths, configs |-> loaded]

\* Mutant of ReverseLoaded: reverse() also hits the caller's list of paths.
ReverseLoadedShared(paths, loaded) ==
  [configPaths |-> Reverse(paths), configs |-> Reverse(loaded)]

\* configs.reverse(): in place on mergeConfigs' own array; the caller's list of
\* paths is another array and is left alone.
ReverseLoaded(paths, loaded) ==
  [configPaths |-> paths, configs |-> Reverse(loaded)]

\* The configuration files of the modelled projects: the four recognized names in
\* the root, a second tsconfig.json in a sub-directory, and one unrecognized name.
ConfigPaths ==
  {<<CONFIG_FILE_NAMES[i]>> : i \in DOMAIN CONFIG_FILE_NAMES}
    \cup {<<"packages", "tsconfig.json">>, <<"custom.json">>}

\* Parsed contents a configuration file may have.
ContentA ==
  [k \in {"compilerOptions", "include", "compileOnSave"} |->
     CASE k = "compilerOptions" -> ("target" :> Str("es5")) @@ ("strict" :> Bool(TRUE))
       [] k = "include" -> <<"src">>
       [] OTHER -> "a"]

ContentB ==
  [k \in {"compilerOptions", "include", "files", "extends", "compileOnSave"} |->
     CASE k = "compilerOptions" ->
            ("target" :> Str("es2022")) @@ ("module" :> Str("commonjs"))
       [] k = "include" -> <<"src", "lib">>
       [] k = "files" -> <<"a.ts">>
       [] k = "extends" -> "./base"
       [] OTHER -> "b"]

ContentC ==
  [k \in {"exclude", "files", "references"} |->
     CASE k = "exclude" -> <<"dist">>
       [] k = "files" -> <<>>
       [] OTHER -> "c"]

FileContents == {ContentA, ContentB, ContentC}

MergeIdle ==
  /\ fileSystem = EmptyObject
  /\ configFiles = <<>>
  /\ configFiles0 = <<>>
  /\ relevantConfigs = <<>>
  /\ configs = <<>>
  /\ mergedConfig = EmptyObject
  /\ idx = 0
  /\ mpc = "idle"
  /\ runs = <<>>

MergeInit ==
  /\ configFiles \in DistinctSeqs(ConfigPaths, 0, MaxDiscovered)
  /\ fileSystem \in [Range(configFiles) -> FileContents]
  /\ configFiles0 = configFiles
  /\ relevantConfigs = <<>>
  /\ configs = <<>>
  /\ mergedConfig = EmptyObject
  /\ idx = 1
  /\ mpc = "determine"
  /\ runs = <<>>

\* determineRelevantConfigs: one iteration of `for (const configFile of configFiles)`.
DetermineStep ==
  /\ UNCHANGED notMergeVars
  /\ mpc = "determine"
  /\ idx <= Len(configFiles)
  /\ relevantConfigs' = DetermineInsert(relevantConfigs, configFiles[idx])
  /\ idx' = idx + 1
  /\ UNCHANGED <<fileSystem, configFiles, configFiles0, configs, mergedConfig, mpc, runs>>

\* determineRelevantConfigs returns; findAndMergeConfigs calls mergeConfigs.
DetermineReturn ==
  /\ UNCHANGED notMergeVars
  /\ mpc = "determine"
  /\ idx > Len(configFiles)
  /\ mpc' = "read"
  /\ UNCHANGED <<fileSystem, configFiles, configFiles0, relevantConfigs, configs,
                 mergedConfig, idx, runs>>

\* mergeConfigs: the loop that reads every path into the private array configs.
ReadConfigs ==
  /\ UNCHANGED notMergeVars
  /\ mpc = "read"
  /\ configs' = [i \in 1..Len(relevantConfigs) |-> fileSystem[relevantConfigs[i]]]
  /\ mergedConfig' = EmptyObject
  /\ mpc' = "reverse"
  /\ UNCHANGED <<fileSystem, configFiles, configFiles0, relevantConfigs, idx, runs>>

\* mergeConfigs: configs.reverse(), evaluated once when the merge loop starts.
ReverseConfigs ==
  /\ UNCHANGED notMergeVars
  /\ mpc = "reverse"
  /\ relevantConfigs' = ReverseLoaded(relevantConfigs, configs).configPaths
  /\ configs' = ReverseLoaded(relevantConfigs, configs).configs
  /\ idx' = 1
  /\ mpc' = "merge"
  /\ UNCHANGED <<fileSystem, configFiles, configFiles0, mergedConfig, runs>>

\* mergeConfigs: one iteration of `for (const config of configs.reverse())`.
MergeStep ==
  /\ UNCHANGED notMergeVars
  /\ mpc = "merge"
  /\ idx <= Len(configs)
  /\ mergedConfig' = MergeOne(mergedConfig, configs[idx])
  /\ idx' = idx + 1
  /\ UNCHANGED <<fileSystem, configFiles, configFiles0, relevantConfigs, configs,
                 mpc, runs>>

\* mergeConfigs returns the effective configuration of this run.
MergeReturn ==
  /\ UNCHANGED notMergeVars
  /\ mpc = "merge"
  /\ idx > Len(configs)
  /\ runs' = Append(runs, [relevant |-> relevantConfigs, merged |-> mergedConfig])
  /\ mpc' = "returned"
  /\ UNCHANGED <<fileSystem, configFiles, configFiles0, relevantConfigs, configs,
                 mergedConfig, idx>>

\* After the first run the caller runs findAndMergeConfigs a second time on the
\* discovered list it holds.
RunAgain ==
  /\ UNCHANGED notMergeVars
  /\ mpc = "returned"
  /\ Len(runs) = 1
  /\ relevantConfigs' = <<>>
  /\ configs' = <<>>
  /\ mergedConfig' = EmptyObject
  /\ idx' = 1
  /\ mpc' = "determine"
  /\ UNCHANGED <<fileSystem, configFiles, configFiles0, runs>>

MergeNext ==
  \/ DetermineStep
  \/ DetermineReturn
  \/ ReadConfigs
  \/ ReverseConfigs
  \/ MergeStep
  \/ MergeReturn
  \/ RunAgain

----------------------------------------------------------------------------
(* node-modules-resolver: incorporateDependencyConfigs.                    *)
(*                                                                         *)
(* The project configuration lives in a heap of objects so that the        *)
(* shallow copy { ...projectConfig } shares what the code shares. A cell   *)
(* is [refs, vals]: refs holds the properties that are objects or arrays   *)
(* (compilerOptions, paths, types) as addresses, vals the other            *)
(* properties; an array cell keeps its elements in vals.items. The         *)
(* dependency map is only read, and is kept as a value: a sequence of      *)
(* [name, config] in the Map's insertion order.                            *)

\* Bound of the number of dependencies with a configuration.
MaxDeps == 2

NoRefs == [k \in {} |-> 0]
NoVals == [k \in {} |-> <<>>]

Cell(refs, vals) == [refs |-> refs, vals |-> vals]

\* The value (without addresses) of the object at address a.
RECURSIVE Deep(_, _)
Deep(h, a) ==
  [refs |-> [k \in DOMAIN h[a].refs |-> Deep(h, h[a].refs[k])], vals |-> h[a].vals]

\* Keys that scanNodeModules gives the dependency map: a directory name, or
\* `${scope}/${name}` for a scoped package.
DependencyNames == {"alpha", "beta", "@scope/gamma"}

\* Configurations resolvePackageConfig may return for a dependency.
DepPathsOnly ==
  "compilerOptions" :>
    ("paths" :> (("*" :> <<"src/*">>) @@ ("lib/*" :> <<"dist/lib/*", "types/lib/*">>)))

DepTypesOnly == "compilerOptions" :> ("types" :> <<"node">>)

DepPathsAndTypes ==
  "compilerOptions" :>
    (("paths" :> ("*" :> <<"types/*">>)) @@ ("types" :> <<"jest", "node">>))

DepNoOptions == "include" :> <<"src">>

DependencyContents == {DepPathsOnly, DepTypesOnly, DepPathsAndTypes, DepNoOptions}

\* The dependency maps of the model: up to MaxDeps entries with distinct names.
DependencyMaps ==
  {m \in UNION {[1..n -> [name : DependencyNames, config : DependencyContents]] :
                  n \in 0..MaxDeps} :
     \A i, j \in DOMAIN m : i # j => m[i].name # m[j].name}

\* Project configurations as heaps; the configuration object is at address 1.
ProjectNoOptions == <<Cell(NoRefs, "include" :> <<"src">>)>>

ProjectPlainOptions ==
  <<Cell("compilerOptions" :> 2, NoVals), Cell(NoRefs, "target" :> <<"es5">>)>>

ProjectWithPaths ==
  <<Cell("compilerOptions" :> 2, "include" :> <<"src">>),
    Cell("paths" :> 3, "target" :> <<"es5">>),
    Cell(NoRefs, ("@app/*" :> <<"src/*">>) @@ ("alpha/*" :> <<"vendor/alpha/*">>))>>

ProjectWithTypes ==
  <<Cell("compilerOptions" :> 2, NoVals),
    Cell("types" :> 3, NoVals),
    Cell(NoRefs, "items" :> <<"node">>)>>

ProjectWithPathsAndTypes ==
  <<Cell("compilerOptions" :> 2, NoVals),
    Cell(("paths" :> 3) @@ ("types" :> 4), NoVals),
    Cell(NoRefs, "@app/*" :> <<"src/*">>),
    Cell(NoRefs, "items" :> <<"vitest">>)>>

ProjectHeaps ==
  {ProjectNoOptions, ProjectPlainOptions, ProjectWithPaths, ProjectWithTypes,
   ProjectWithPathsAndTypes}

\* Mutant of DependencyPathKey: the key is not namespaced under the dependency.
DependencyPathKeyPlain(dependencyName, key) == key

\* `${dependencyName}/${key}`
DependencyPathKey(dependencyName, key) == dependencyName \o "/" \o key

\* (value as string[]).map((p) => `node_modules/${dependencyName}/${p}`)
DependencyPathTargets(dependencyName, value) ==
  [i \in 1..Len(value) |-> "node_modules/" \o dependencyName \o "/" \o value[i]]

\* A new object at the next free address.
Alloc(h, cell) == Append(h, cell)

\* h with the property key of the object at a made a reference to address r.
SetRef(h, a, key, r) ==
  [h EXCEPT ![a] = Cell(Assign(h[a].refs, key, r), h[a].vals)]

\* h with the property key of the object at a assigned value.
SetVal(h, a, key, value) ==
  [h EXCEPT ![a] = Cell(h[a].refs, Assign(h[a].vals, key, value))]

\* const updatedConfig = { ...projectConfig }: a new object with the same
\* property values, so its compilerOptions is the caller's object; when the
\* project has none, a new empty compilerOptions is given to the copy only.
ShallowCopyConfig(h, project) ==
  LET h1 == Alloc(h, h[project])
      copy == Len(h1)
  IN IF Has(h1[copy].refs, "compilerOptions")
     THEN [heap |-> h1, updated |-> copy]
     ELSE LET h2 == Alloc(h1, Cell(NoRefs, NoVals))
          IN [heap |-> SetRef(h2, copy, "compilerOptions", Len(h2)), updated |-> copy]

\* if (!updatedConfig.compilerOptions.paths) updatedConfig.compilerOptions.paths = {}
EnsurePaths(h, opts) ==
  IF Has(h[opts].refs, "paths") THEN h
  ELSE LET h1 == Alloc(h, Cell(NoRefs, NoVals)) IN SetRef(h1, opts, "paths", Len(h1))

\* if (!updatedConfig.compilerOptions.types) updatedConfig.compilerOptions.types = []
EnsureTypes(h, opts) ==
  IF Has(h[opts].refs, "types") THEN h
  ELSE LET h1 == Alloc(h, Cell(NoRefs, "items" :> <<>>))
       IN SetRef(h1, opts, "types", Len(h1))

\* The loop over Object.entries(dependencyConfig.compilerOptions.paths): the keys
\* of one object differ, so the assignments are independent of the order.
MergeDependencyPaths(h, opts, dependencyName, depPaths) ==
  LET h1 == EnsurePaths(h, opts)
      p == h1[opts].refs["paths"]
      added == [k \in {DependencyPathKey(dependencyName, key) : key \in DOMAIN depPaths} |->
                  LET key == CHOOSE key \in DOMAIN depPaths :
                               DependencyPathKey(dependencyName, key) = k
                  IN DependencyPathTargets(dependencyName, depPaths[key])]
  IN [h1 EXCEPT ![p] = Cell(h1[p].refs, Spread(h1[p].vals, added))]

\* updatedConfig.compilerOptions.types.push(...dependencyConfig.compilerOptions.types)
MergeDependencyTypes(h, opts, depTypes) ==
  LET h1 == EnsureTypes(h, opts)
      t == h1[opts].refs["types"]
  IN SetVal(h1, t, "items", h1[t].vals["items"] \o depTypes)

\* The body of the loop over the dependency map for one dependency.
FoldDependency(h, updated, dep) ==
  LET opts == h[updated].refs["compilerOptions"]
  IN IF ~Has(dep.config, "compilerOptions") THEN h
     ELSE LET depOptions == dep.config["compilerOptions"]
              h1 == IF Has(depOptions, "paths")
                    THEN MergeDependencyPaths(h, opts, dep.name, depOptions["paths"])
                    ELSE h
          IN IF Has(depOptions, "types")
             THEN MergeDependencyTypes(h1, opts, depOptions["types"])
             ELSE h1

FoldIdle ==
  /\ heap = <<>>
  /\ projectConfig = 0
  /\ projectConfig0 = EmptyObject
  /\ dependencyConfigs = <<>>
  /\ dependencyConfigs0 = <<>>
  /\ updatedConfig = 0
  /\ depIdx = 0
  /\ fpc = "idle"

FoldInit ==
  /\ heap \in ProjectHeaps
  /\ projectConfig = 1
  /\ projectConfig0 = Deep(heap, 1)
  /\ dependencyConfigs \in DependencyMaps
  /\ dependencyConfigs0 = dependencyConfigs
  /\ updatedConfig = 0
  /\ depIdx = 0
  /\ fpc = "copy"

\* incorporateDependencyConfigs: the shallow copy and the default compilerOptions.
FoldCopy ==
  /\ UNCHANGED notFoldVars
  /\ fpc = "copy"
  /\ heap' = ShallowCopyConfig(heap, projectConfig).heap
  /\ updatedConfig' = ShallowCopyConfig(heap, projectConfig).updated
  /\ depIdx' = 1
  /\ fpc' = "loop"
  /\ UNCHANGED <<projectConfig, projectConfig0, dependencyConfigs, dependencyConfigs0>>

\* One iteration of `for (const [dependencyName, dependencyConfig] of dependencyConfigs)`.
FoldStep ==
  /\ UNCHANGED notFoldVars
  /\ fpc = "loop"
  /\ depIdx <= Len(dependencyConfigs)
  /\ heap' = FoldDependency(heap, updatedConfig, dependencyConfigs[depIdx])
  /\ depIdx' = depIdx + 1
  /\ UNCHANGED <<projectConfig, projectConfig0, dependencyConfigs, dependencyConfigs0,
                 updatedConfig, fpc>>

\* return updatedConfig
FoldReturn ==
  /\ UNCHANGED notFoldVars
  /\ fpc = "loop"
  /\ depIdx > Len(dependencyConfigs)
  /\ fpc' = "done"
  /\ UNCHANGED <<heap, projectConfig, projectConfig0, dependencyConfigs,
                 dependencyConfigs0, updatedConfig, depIdx>>

FoldNext ==
  \/ FoldCopy
  \/ FoldStep
  \/ FoldReturn

----------------------------------------------------------------------------
(* compiler-options: compilerOptionsSchema and validateCompilerOptions.    *)
(*                                                                         *)
(* safeParse is modelled as zod runs it on a z.object of optional fields:  *)
(* the fields are visited in the order of the schema, an absent field is   *)
(* accepted, a field of the wrong type or outside its enumeration yields   *)
(* one issue at [field], an array is parsed element by element and yields  *)
(* one issue at [field, index] per element that is no string, and keys the *)
(* schema does not name are dropped without an issue.                      *)

\* Bound of the number of options in the settings object.
MaxOptions == 2

TARGET_VALUES ==
  {"es3", "es5", "es6", "es2015", "es2016", "es2017", "es2018", "es2019", "es2020",
   "es2021", "es2022", "esnext"}

MODULE_VALUES ==
  {"none", "commonjs", "amd", "system", "umd", "es6", "es2015", "es2020", "es2022",
   "esnext", "node16", "nodenext"}

JSX_VALUES == {"preserve", "react", "react-native", "react-jsx", "react-jsxdev"}

ZEnum(name, choices) == [name |-> name, kind |-> "enum", choices |-> choices]
ZBoolean(name) == [name |-> name, kind |-> "boolean", choices |-> {}]
ZString(name) == [name |-> name, kind |-> "string", choices |-> {}]
ZStringArray(name) == [name |-> name, kind |-> "array", choices |-> {}]

compilerOptionsSchema ==
  <<ZEnum("target", TARGET_VALUES),
    ZEnum("module", MODULE_VALUES),
    ZStringArray("lib"),
    ZBoolean("allowJs"),
    ZBoolean("checkJs"),
    ZEnum("jsx", JSX_VALUES),
    ZBoolean("declaration"),
    ZBoolean("declarationMap"),
    ZBoolean("sourceMap"),
    ZString("outFile"),
    ZString("outDir"),
    ZString("rootDir"),
    ZBoolean("composite"),
    ZBoolean("removeComments"),
    ZBoolean("noEmit"),
    ZBoolean("importHelpers"),
    ZBoolean("downlevelIteration"),
    ZBoolean("isolatedModules"),
    ZBoolean("strict"),
    ZBoolean("noImplicitAny"),
    ZBoolean("strictNullChecks"),
    ZBoolean("strictFunctionTypes"),
    ZBoolean("strictBindCallApply"),
    ZBoolean("strictPropertyInitialization"),
    ZBoolean("noImplicitThis"),
    ZBoolean("useUnknownInCatchVariables"),
    ZBoolean("alwaysStrict"),
    ZBoolean("noUnusedLocals"),
    ZBoolean("noUnusedParameters"),
    ZBoolean("exactOptionalPropertyTypes"),
    ZBoolean("noImplicitReturns"),
    ZBoolean("noFallthroughCasesInSwitch"),
    ZBoolean("noUncheckedIndexedAccess"),
    ZBoolean("noImplicitOverride"),
    ZBoolean("noPropertyAccessFromIndexSignature"),
    ZBoolean("allowUnusedLabels"),
    ZBoolean("allowUnreachableCode"),
    ZBoolean("skipLibCheck"),
    ZBoolean("forceConsistentCasingInFileNames")>>

\* An issue of zod: the path to the failing value and a message.
ZodIssue(path, code, message) == [path |-> path, code |-> code, message |-> message]

\* The decimal form of an array index.
IndexString(i) == <<"0", "1", "2", "3", "4", "5", "6", "7", "8", "9">>[i + 1]

InvalidType(path, expected, value) ==
  ZodIssue(path, "invalid_type", "Expected " \o expected \o ", received " \o value.t)

\* Mutant of ParseEnum: every string is taken for a member of the enumeration.
ParseEnumAnyString(field, value) ==
  IF value.t # "string"
  THEN <<InvalidType(<<field.name>>, "enum", value)>>
  ELSE <<>>

\* z.enum([...]): a string of the enumeration.
ParseEnum(field, value) ==
  IF value.t # "string"
  THEN <<InvalidType(<<field.name>>, "enum", value)>>
  ELSE IF value.s \notin field.choices
       THEN <<ZodIssue(<<field.name>>, "invalid_enum_value",
                       "Invalid enum value, received '" \o value.s \o "'")>>
       ELSE <<>>

\* z.boolean() / z.string(): a value of that type.
ParsePrimitive(field, value) ==
  IF value.t # field.kind
  THEN <<InvalidType(<<field.name>>, field.kind, value)>>
  ELSE <<>>

\* z.array(z.string()): every element is parsed; each failing one adds an issue.
RECURSIVE ParseElements(_, _, _)
ParseElements(field, elements, i) ==
  IF i > Len(elements) THEN <<>>
  ELSE (IF elements[i].t # "string"
        THEN <<InvalidType(<<field.name, IndexString(i - 1)>>, "string", elements[i])>>
        ELSE <<>>)
       \o ParseElements(field, elements, i + 1)

ParseArray(field, value) ==
  IF value.t # "array"
  THEN <<InvalidType(<<field.name>>, "array", value)>>
  ELSE ParseElements(field, value.a, 1)

\* One field of the schema, .optional(): absent is accepted.
ParseField(field, obj) ==
  IF ~Has(obj, field.name) THEN <<>>
  ELSE CASE field.kind = "enum" -> ParseEnum(field, obj[field.name])
         [] field.kind = "array" -> ParseArray(field, obj[field.name])
         [] OTHER -> ParsePrimitive(field, obj[field.name])

RECURSIVE ParseObject(_, _)
ParseObject(obj, i) ==
  IF i > Len(compilerOptionsSchema) THEN <<>>
  ELSE ParseField(compilerOptionsSchema[i], obj) \o ParseObject(obj, i + 1)

\* compilerOptionsSchema.safeParse(options), then { valid, errors }.
validateCompilerOptions(obj) ==
  LET issues == ParseObject(obj, 1)
  IN [valid |-> issues = <<>>, errors |-> issues]

\* Option names the settings objects of the model may hold: every shape of the
\* schema and one name the schema does not know.
OptionKeys == {"target", "module", "lib", "strict", "outDir", "paths"}

\* Values the settings objects of the model may hold.
OptionValues ==
  {Str("es5"), Str("invalid"), Bool(TRUE), Null,
   Arr(<<Str("dom")>>), Arr(<<Num("1")>>), Arr(<<Num("1"), Str("dom"), Null>>)}

SettingsObjects ==
  UNION {[K -> OptionValues] : K \in {S \in SUBSET OptionKeys : Cardinality(S) <= MaxOptions}}

ValidateIdle ==
  /\ options = EmptyObject
  /\ validation = [valid |-> TRUE, errors |-> <<>>]
  /\ vpc = "idle"

ValidateInit ==
  /\ options \in SettingsObjects
  /\ validation = [valid |-> TRUE, errors |-> <<>>]
  /\ vpc = "call"

\* validateCompilerOptions(options)
Validate ==
  /\ UNCHANGED notValidateVars
  /\ vpc = "call"
  /\ validation' = validateCompilerOptions(options)
  /\ vpc' = "done"
  /\ UNCHANGED options

ValidateNext == Validate

----------------------------------------------------------------------------
(* common-issues: the catalog, analyzeCommonIssues, applyFix, and the       *)
(* auto-fix loop of TSConfigAnalyzer.analyzeConfig.                        *)

\* Bound of the number of compiler options set in the analyzed configuration.
MaxSet == 2

\* JavaScript truthiness of a JSON value.
Truthy(value) ==
  CASE value.t = "boolean" -> value.b
    [] value.t = "string" -> value.s # ""
    [] value.t = "number" -> value.s # "0"
    [] value.t = "null" -> FALSE
    [] OTHER -> TRUE

\* Mutant of ToLowerCase: the string is compared as written.
ToLowerCaseNot(str) == str

\* String.prototype.toLowerCase, on the strings of the model.
ToLowerCase(str) ==
  CASE str = "ES5" -> "es5"
    [] str = "ES2022" -> "es2022"
    [] str = "ESNext" -> "esnext"
    [] str = "CommonJS" -> "commonjs"
    [] str = "Yes" -> "yes"
    [] OTHER -> str

MODERN_TARGETS == {"es2018", "es2019", "es2020", "es2021", "es2022", "esnext"}

\* An entry of the catalog: check is one of the three predicates of the source
\* ("falsy": !config.compilerOptions?.[option]; "target"; "module"), fix sets
\* option to fixValue in a copy.
Issue(description, check, option, fixValue, reason) ==
  [description |-> description, check |-> check, option |-> option,
   fixValue |-> fixValue, reason |-> reason]

commonIssues ==
  <<Issue("Strict mode is not enabled",
          "falsy", "strict", Bool(TRUE),
          "Enabling strict mode helps catch more errors and improves type safety."),
    Issue("Target is set to an outdated ECMAScript version",
          "target", "target", Str("es2022"),
          "Using a more modern target allows for better optimizations and newer language features."),
    Issue("Module is not set to ESNext",
          "module", "module", Str("ESNext"),
          "Using ESNext as the module system enables better tree-shaking and is more future-proof."),
    Issue("esModuleInterop is not enabled",
          "falsy", "esModuleInterop", Bool(TRUE),
          "Enabling esModuleInterop improves compatibility with CommonJS modules."),
    Issue("forceConsistentCasingInFileNames is not enabled",
          "falsy", "forceConsistentCasingInFileNames", Bool(TRUE),
          "Enforcing consistent casing in file names helps prevent issues on case-insensitive file systems."),
    Issue("skipLibCheck is not enabled",
          "falsy", "skipLibCheck", Bool(TRUE),
          "Enabling skipLibCheck can significantly improve compilation speed, especially in large projects."),
    Issue("noImplicitAny is not enabled",
          "falsy", "noImplicitAny", Bool(TRUE),
          "Enabling noImplicitAny helps catch potential type errors and improves code quality."),
    Issue("strictNullChecks is not enabled",
          "falsy", "strictNullChecks", Bool(TRUE),
          "Enabling strictNullChecks helps prevent null and undefined errors."),
    Issue("noUnusedLocals is not enabled",
          "falsy", "noUnusedLocals", Bool(TRUE),
          "Enabling noUnusedLocals helps identify and remove unused variables, improving code cleanliness."),
    Issue("noUnusedParameters is not enabled",
          "falsy", "noUnusedParameters", Bool(TRUE),
          "Enabling noUnusedParameters helps identify and remove unused function parameters, improving code cleanliness."),
    Issue("sourceMap is not enabled",
          "falsy", "sourceMap", Bool(TRUE),
          "Enabling sourceMap generation improves debugging experience by mapping compiled code back to the original TypeScript source."),
    Issue("declaration is not enabled",
          "falsy", "declaration", Bool(TRUE),
          "Enabling declaration file generation is crucial for libraries and improves IDE support for consumers of your code."),
    Issue("resolveJsonModule is not enabled",
          "falsy", "resolveJsonModule", Bool(TRUE),
          "Enabling resolveJsonModule allows for importing JSON files as modules, which can be useful for configuration files or data.")>>

\* config.compilerOptions?.[option] is neither undefined nor null.
OptionPresent(cfg, option) ==
  /\ Has(cfg, "compilerOptions")
  /\ Has(cfg["compilerOptions"], option)
  /\ cfg["compilerOptions"][option].t # "null"

\* config.compilerOptions?.target?.toLowerCase() (and the same for module) calls
\* toLowerCase on any value but undefined and null: a TypeError unless a string.
CheckThrows(cfg) ==
  \E option \in {"target", "module"} :
    OptionPresent(cfg, option) /\ cfg["compilerOptions"][option].t # "string"

\* issue.check(config), for a configuration on which no check throws.
Check(issue, cfg) ==
  CASE issue.check = "target" ->
         /\ OptionPresent(cfg, "target")
         /\ ToLowerCase(cfg["compilerOptions"]["target"].s) # ""
         /\ ToLowerCase(cfg["compilerOptions"]["target"].s) \notin MODERN_TARGETS
    [] issue.check = "module" ->
         ~(OptionPresent(cfg, "module")
           /\ ToLowerCase(cfg["compilerOptions"]["module"].s) = "esnext")
    [] OTHER ->
         ~(/\ Has(cfg, "compilerOptions")
           /\ Has(cfg["compilerOptions"], issue.option)
           /\ Truthy(cfg["compilerOptions"][issue.option]))

\* Mutant of Fix: the fix holds the corrected compilerOptions only; the other
\* top-level keys of the configuration are not copied.
FixOptionsOnly(issue, cfg) ==
  "compilerOptions" :>
    Assign(IF Has(cfg, "compilerOptions") THEN cfg["compilerOptions"] ELSE EmptyObject,
           issue.option, issue.fixValue)

\* issue.fix(config): { ...config, compilerOptions: { ...config.compilerOptions, option: fixValue } }
Fix(issue, cfg) ==
  Assign(cfg, "compilerOptions",
         Assign(IF Has(cfg, "compilerOptions") THEN cfg["compilerOptions"] ELSE EmptyObject,
                issue.option, issue.fixValue))

\* commonIssues.filter((issue) => issue.check(config)).map(...)
RECURSIVE analyzeFrom(_, _)
analyzeFrom(cfg, i) ==
  IF i > Len(commonIssues) THEN <<>>
  ELSE (IF Check(commonIssues[i], cfg)
        THEN <<[description |-> commonIssues[i].description,
                fix |-> Fix(commonIssues[i], cfg),
                reason |-> commonIssues[i].reason]>>
        ELSE <<>>)
       \o analyzeFrom(cfg, i + 1)

analyzeCommonIssues(cfg) == analyzeFrom(cfg, 1)

\* Mutant of applyFix: the upper bound is tested with <=, so the index equal to
\* the number of issues returns the last fix.
applyFixOffByOne(cfg, fixIndex) ==
  LET issues == analyzeCommonIssues(cfg)
  IN IF fixIndex >= 0 /\ fixIndex <= Len(issues) /\ Len(issues) > 0
     THEN issues[IF fixIndex = Len(issues) THEN fixIndex ELSE fixIndex + 1].fix
     ELSE cfg

\* applyFix(config, fixIndex); fixIndex counts from 0.
applyFix(cfg, fixIndex) ==
  LET issues == analyzeCommonIssues(cfg)
  IN IF fixIndex >= 0 /\ fixIndex < Len(issues)
     THEN issues[fixIndex + 1].fix
     ELSE cfg

\* The options of the catalog and the values the analyzed configurations give them.
IssueOptions == {commonIssues[i].option : i \in DOMAIN commonIssues}

IssueOptionValues(option) ==
  CASE option = "target" -> {Str("es5"), Str("ES2022"), Str("ESNext"), Num("5")}
    [] option = "module" -> {Str("commonjs"), Str("esnext"), Str("ESNext")}
    [] OTHER -> {Bool(TRUE), Bool(FALSE)}

\* The configuration of the example in common-issues' main.
exampleConfig ==
  "compilerOptions" :>
    (("target" :> Str("es5")) @@ ("module" :> Str("commonjs")) @@ ("strict" :> Bool(FALSE)))

\* The analyzed configurations: without compilerOptions, with up to MaxSet of
\* the catalog's options set, and the example.
IssueConfigs ==
  {"include" :> <<"src">>, exampleConfig}
    \cup {("include" :> <<"src">>) @@ ("compilerOptions" :> co) :
            co \in UNION {{f \in [K -> UNION {IssueOptionValues(o) : o \in K}] :
                             \A o \in K : f[o] \in IssueOptionValues(o)} :
                          K \in {S \in SUBSET IssueOptions : Cardinality(S) <= MaxSet}}}

\* Indices a caller may hand to applyFix for a configuration with n issues.
FixIndices(n) == {-1, 0, 1, n - 1, n, n + 1}

IssueIdle ==
  /\ config = EmptyObject
  /\ config0 = EmptyObject
  /\ analyzerOptions = [ignoreErrors |-> FALSE, autoFix |-> FALSE]
  /\ detected = <<>>
  /\ fixIdx = 0
  /\ lastFix = <<>>
  /\ ipc = "idle"

IssueInit ==
  /\ config \in IssueConfigs
  /\ config0 = config
  /\ analyzerOptions \in [ignoreErrors : {FALSE}, autoFix : BOOLEAN]
  /\ detected = <<>>
  /\ fixIdx = 0
  /\ lastFix = <<>>
  /\ ipc = "analyze"

\* analyzeConfig: const commonIssues = analyzeCommonIssues(this.config), and the
\* branch on commonIssues.length and options.autoFix. A check that throws ends
\* the analysis.
AnalyzeCommonIssues ==
  /\ UNCHANGED notIssueVars
  /\ ipc = "analyze"
  /\ IF CheckThrows(config)
     THEN /\ ipc' = "threw"
          /\ UNCHANGED detected
     ELSE /\ detected' = analyzeCommonIssues(config)
          /\ ipc' = IF Len(detected') > 0 /\ analyzerOptions.autoFix
                    THEN "autofix" ELSE "done"
  /\ fixIdx' = 0
  /\ UNCHANGED <<config, config0, analyzerOptions, lastFix>>

\* analyzeConfig: one iteration of
\* `for (let i = 0; i < commonIssues.length; i++) this.config = applyFix(this.config, i)`.
AutoFixStep ==
  /\ UNCHANGED notIssueVars
  /\ ipc = "autofix"
  /\ fixIdx < Len(detected)
  /\ config' = applyFix(config, fixIdx)
  /\ lastFix' = [input |-> config, index |-> fixIdx, output |-> config']
  /\ fixIdx' = fixIdx + 1
  /\ UNCHANGED <<config0, analyzerOptions, detected, ipc>>

\* analyzeConfig: the auto-fix loop ends.
AutoFixDone ==
  /\ UNCHANGED notIssueVars
  /\ ipc = "autofix"
  /\ fixIdx >= Len(detected)
  /\ ipc' = "fixed"
  /\ UNCHANGED <<config, config0, analyzerOptions, detected, fixIdx, lastFix>>

\* A caller of the exported applyFix hands it a configuration and an index.
ApplyFixCall ==
  /\ UNCHANGED notIssueVars
  /\ ipc = "analyze"
  /\ ~CheckThrows(config)
  /\ \E fixIndex \in FixIndices(Len(analyzeCommonIssues(config))) :
       lastFix' = [input |-> config, index |-> fixIndex,
                   output |-> applyFix(config, fixIndex)]
  /\ ipc' = "applied"
  /\ UNCHANGED <<config, config0, analyzerOptions, detected, fixIdx>>

IssueNext ==
  \/ AnalyzeCommonIssues
  \/ AutoFixStep
  \/ AutoFixDone
  \/ ApplyFixCall

----------------------------------------------------------------------------
(* config-finder: findTSConfigs.                                           *)
(*                                                                         *)
(* The directory tree is a set of entries [path, kind]; the path is        *)
(* relative to projectRoot and the parent of every entry is a directory    *)
(* of the tree. kind is what the Dirent answers: "dir" (isDirectory),      *)
(* "file" (isFile) or "other" (neither: a symbolic link, a socket).        *)
(* readdir's order is not specified, so the entries of a directory are     *)
(* visited in any order.                                                   *)

\* Bound of the number of entries of the root directory.
MaxEntries == 3

\* Names of the entries of the root directory.
EntryNames == {"src", "node_modules", ".git", "tsconfig.json", "index.ts"}

\* entry.name.startsWith("."), on the names of the model.
StartsWithDot(name) == name \in {".git", ".cache"}

Entry(path, kind) == [path |-> path, kind |-> kind]

\* What a directory of the root may hold, as paths below that directory.
SubEmpty == {}

SubConfig == {Entry(<<"tsconfig.json">>, "file"), Entry(<<"index.ts">>, "file")}

SubNested ==
  {Entry(<<"lib">>, "dir"),
   Entry(<<"lib", "jsconfig.json">>, "file"),
   Entry(<<"lib", "tsconfig.json">>, "other"),
   Entry(<<".cache">>, "dir"),
   Entry(<<".cache", "tsconfig.json">>, "file"),
   Entry(<<"node_modules">>, "dir"),
   Entry(<<"node_modules", "tsconfig.app.json">>, "file"),
   Entry(<<"tsconfig.node.json">>, "file")}

\* An entry of the root: a regular file, something that is neither file nor
\* directory, or a directory with its contents.
EntryShapes ==
  {[kind |-> "file", contents |-> {}], [kind |-> "other", contents |-> {}]}
    \cup {[kind |-> "dir", contents |-> c] : c \in {SubEmpty, SubConfig, SubNested}}

\* The tree whose root holds the entries root[name].
TreeOf(root) ==
  UNION {{Entry(<<name>>, root[name].kind)}
           \cup {Entry(<<name>> \o e.path, e.kind) : e \in root[name].contents} :
         name \in DOMAIN root}

DirectoryTrees ==
  {TreeOf(root) :
     root \in UNION {[K -> EntryShapes] :
                       K \in {S \in SUBSET EntryNames : Cardinality(S) <= MaxEntries}}}

\* fs.readdir(dir, { withFileTypes: true }): the entries directly in dir.
readdir(t, dir) ==
  {e \in t : Len(e.path) = Len(dir) + 1 /\ SubSeq(e.path, 1, Len(dir)) = dir}

\* Mutant of Descends: hidden directories are scanned as well.
DescendsIntoHidden(entry) ==
  /\ entry.kind = "dir"
  /\ basename(entry.path) # "node_modules"

\* entry.isDirectory() && !entry.name.startsWith(".") && entry.name !== "node_modules"
Descends(entry) ==
  /\ entry.kind = "dir"
  /\ ~StartsWithDot(basename(entry.path))
  /\ basename(entry.path) # "node_modules"

\* entry.isFile() && CONFIG_FILE_NAMES.includes(entry.name)
IsConfigFile(entry) ==
  /\ entry.kind = "file"
  /\ \E i \in DOMAIN CONFIG_FILE_NAMES : CONFIG_FILE_NAMES[i] = basename(entry.path)

\* A call of scanDirectory(dir) that has read the directory.
ScanFrame(t, dir) == [dir |-> dir, pending |-> readdir(t, dir)]

\* The stack with the entry taken off the pending entries of the innermost call.
Visited(stack, entry) ==
  [stack EXCEPT ![Len(stack)].pending = stack[Len(stack)].pending \ {entry}]

DiscoverIdle ==
  /\ tree = {}
  /\ scanStack = <<>>
  /\ scanned = <<>>
  /\ dpc = "idle"

\* findTSConfigs(projectRoot) has been called: configFiles = [], scanDirectory(projectRoot).
DiscoverInit ==
  /\ tree \in DirectoryTrees
  /\ scanStack = <<ScanFrame(tree, <<>>)>>
  /\ scanned = <<>>
  /\ dpc = "scan"

\* scanDirectory: the entry is a directory to scan; the call recurses into it.
ScanSubdirectory ==
  /\ UNCHANGED notDiscoverVars
  /\ dpc = "scan"
  /\ scanStack # <<>>
  /\ \E entry \in scanStack[Len(scanStack)].pending :
       /\ Descends(entry)
       /\ scanStack' = Append(Visited(scanStack, entry), ScanFrame(tree, entry.path))
  /\ UNCHANGED <<tree, scanned>>
  /\ UNCHANGED dpc

\* scanDirectory: the entry is a configuration file; its path is pushed.
ScanConfigFile ==
  /\ UNCHANGED notDiscoverVars
  /\ dpc = "scan"
  /\ scanStack # <<>>
  /\ \E entry \in scanStack[Len(scanStack)].pending :
       /\ ~Descends(entry)
       /\ IsConfigFile(entry)
       /\ scanned' = Append(scanned, entry.path)
       /\ scanStack' = Visited(scanStack, entry)
  /\ UNCHANGED <<tree, dpc>>

\* scanDirectory: the entry is neither; the loop goes on.
ScanOtherEntry ==
  /\ UNCHANGED notDiscoverVars
  /\ dpc = "scan"
  /\ scanStack # <<>>
  /\ \E entry \in scanStack[Len(scanStack)].pending :
       /\ ~Descends(entry)
       /\ ~IsConfigFile(entry)
       /\ scanStack' = Visited(scanStack, entry)
  /\ UNCHANGED <<tree, scanned, dpc>>

\* scanDirectory: the loop over the entries ends and the call returns.
ScanDirectoryReturn ==
  /\ UNCHANGED notDiscoverVars
  /\ dpc = "scan"
  /\ scanStack # <<>>
  /\ scanStack[Len(scanStack)].pending = {}
  /\ scanStack' = SubSeq(scanStack, 1, Len(scanStack) - 1)
  /\ UNCHANGED <<tree, scanned, dpc>>

\* findTSConfigs: scanDirectory(projectRoot) has returned; return configFiles.
FindReturn ==
  /\ UNCHANGED notDiscoverVars
  /\ dpc = "scan"
  /\ scanStack = <<>>
  /\ dpc' = "returned"
  /\ UNCHANGED <<tree, scanStack, scanned>>

DiscoverNext ==
  \/ ScanSubdirectory
  \/ ScanConfigFile
  \/ ScanOtherEntry
  \/ ScanDirectoryReturn
  \/ FindReturn

----------------------------------------------------------------------------
(* project-structure: analyzeProjectStructure.                             *)
(*                                                                         *)
(* The function reads structure.files only; a message is a string.         *)

\* Bound of the length of the structure's file list and of the declared list.
MaxFiles == 2

\* Relative paths scanProjectStructure may list.
StructurePaths == {"src/a.ts", "src/b.ts", "dist/a.js"}

\* Paths a configuration may declare in `files`.
DeclaredPaths == {"src/a.ts", "src/b.ts"}

\* The simplified minimatch (`.` escaped, `*` -> `.*`, `?` -> `.`, anchored), on
\* the patterns and paths of the model; a pattern without wildcard matches itself.
minimatch(filename, pattern) ==
  CASE pattern = "*" -> TRUE
    [] pattern = "src/*" -> filename \in {"src/a.ts", "src/b.ts"}
    [] pattern = "dist/*" -> filename \in {"dist/a.js"}
    [] pattern = "*.ts" -> filename \in {"src/a.ts", "src/b.ts"}
    [] OTHER -> filename = pattern

\* Mutant of MatchingFiles: a file counts only when every pattern matches it.
MatchingFilesEvery(projectStructure, patterns) ==
  LET Matches(file) == \A i \in DOMAIN patterns : minimatch(file, patterns[i])
  IN SelectSeq(projectStructure.files, Matches)

\* structure.files.filter((file) => patterns.some((pattern) => minimatch(file, pattern)))
MatchingFiles(projectStructure, patterns) ==
  LET Matches(file) == \E i \in DOMAIN patterns : minimatch(file, patterns[i])
  IN SelectSeq(projectStructure.files, Matches)

\* Mutant of MissingFiles: the test of the filter is inverted.
MissingFilesInverted(projectStructure, files) ==
  LET Present(file) == file \in Range(projectStructure.files)
  IN SelectSeq(files, Present)

\* files.filter((file) => !structure.files.includes(file))
MissingFiles(projectStructure, files) ==
  LET Missing(file) == file \notin Range(projectStructure.files)
  IN SelectSeq(files, Missing)

\* The messages of the `files` branch.
FilesMessages(projectStructure, cfg) ==
  IF ~Has(cfg, "files") THEN <<>>
  ELSE LET missingFiles == MissingFiles(projectStructure, cfg["files"])
       IN IF Len(missingFiles) > 0
          THEN <<"The following files specified in 'files' are missing from the project:">>
                 \o [i \in 1..Len(missingFiles) |-> "  - " \o missingFiles[i]]
          ELSE <<>>

\* The message of the `include` branch.
IncludeMessages(projectStructure, cfg) ==
  IF ~Has(cfg, "include") THEN <<>>
  ELSE <<"Found " \o IndexString(Len(MatchingFiles(projectStructure, cfg["include"])))
           \o " files matching 'include' patterns.">>

\* The message of the `exclude` branch.
ExcludeMessages(projectStructure, cfg) ==
  IF ~Has(cfg, "exclude") THEN <<>>
  ELSE LET excludedFiles == MatchingFiles(projectStructure, cfg["exclude"])
       IN IF Len(excludedFiles) > 0
          THEN <<"Warning: Found " \o IndexString(Len(excludedFiles))
                   \o " files matching 'exclude' patterns.">>
          ELSE <<>>

analyzeProjectStructure(projectStructure, cfg) ==
  FilesMessages(projectStructure, cfg)
    \o IncludeMessages(projectStructure, cfg)
    \o ExcludeMessages(projectStructure, cfg)

\* The structures of the model.
ProjectStructures == {[files |-> f] : f \in DistinctSeqs(StructurePaths, 0, MaxFiles)}

\* The declared lists of the model; a path may be declared more than once, as
\* the merge of several sources concatenates their `files`.
DeclaredLists == UNION {[1..n -> DeclaredPaths] : n \in 0..MaxFiles}

\* The file-selection fields of the configurations of the model.
SelectionFields ==
  {Spread(Spread(f, i), e) :
     f \in {EmptyObject} \cup {"files" :> d : d \in DeclaredLists},
     i \in {EmptyObject, "include" :> <<"src/*">>, "include" :> <<"*.ts", "dist/a.js">>},
     e \in {EmptyObject, "exclude" :> <<"dist/*">>, "exclude" :> <<"*">>}}

StructureIdle ==
  /\ structure = [files |-> <<>>]
  /\ tsconfig = EmptyObject
  /\ structureAnalysis = <<>>
  /\ spc = "idle"

StructureInit ==
  /\ structure \in ProjectStructures
  /\ tsconfig \in SelectionFields
  /\ structureAnalysis = <<>>
  /\ spc = "call"

\* analyzeProjectStructure(structure, tsconfig)
AnalyzeStructure ==
  /\ UNCHANGED notStructureVars
  /\ spc = "call"
  /\ structureAnalysis' = analyzeProjectStructure(structure, tsconfig)
  /\ spc' = "done"
  /\ UNCHANGED <<structure, tsconfig>>

StructureNext == AnalyzeStructure

----------------------------------------------------------------------------
(* tsconfig-analyzer: the analyze command's loop over the discovered files, *)
(* analyzeTSConfig, TSConfigAnalyzer and promptUser.                       *)
(*                                                                         *)
(* The analysis of one file takes from the file system what                *)
(* readAndParseConfig reads: the merged configuration (findAndMergeConfigs, *)
(* modelled above), the file list of the structure, the dependency map,    *)
(* and the step that fails, if one does. scanNodeModules catches its own   *)
(* errors, so only the merge and the structure scan can fail. The answers  *)
(* saved by promptUser live in a file and outlast an analysis.             *)

\* Bound of the number of configuration files the analyze command analyzes.
MaxAnalyses == 2

\* What the operator may type at a yes/no question, and as a corrected value.
OperatorAnswers == {"yes", "Yes", "no"}
OperatorCorrections == {"es2022", "dom"}

\* this.config = null / a configuration held by the analyzer.
NoConfig == [present |-> FALSE, value |-> EmptyObject]
Held(cfg) == [present |-> TRUE, value |-> cfg]

\* error.path.join(".")
RECURSIVE JoinPath(_)
JoinPath(path) ==
  IF path = <<>> THEN ""
  ELSE IF Len(path) = 1 THEN path[1]
       ELSE path[1] \o "." \o JoinPath(Tail(path))

\* `${errorPath}: ${error.message}`
ErrorMessage(error) == JoinPath(error.path) \o ": " \o error.message

\* Mutant of RejectedError: the error is kept as zod reported it.
RejectedErrorRaw(error) == error

\* The entry pushed for an error that is not corrected.
RejectedError(error) == ZodIssue(<<>>, "custom", ErrorMessage(error))

\* Mutant of Agrees: the answer is compared without toLowerCase().
AgreesCaseSensitive(answer) == answer = "yes"

\* shouldCorrect.toLowerCase() === "yes"
Agrees(answer) == ToLowerCase(answer) = "yes"

\* loadUserInput(id) returned a truthy answer.
HasSavedAnswer(store, id) == Has(store, id) /\ store[id] # ""

\* The array index a path segment names.
IndexOfString(segment) == CHOOSE i \in 0..9 : IndexString(i) = segment

\* Mutant of ApplyCorrection: an absent intermediate segment is created as an
\* array that holds the value.
ApplyCorrectionCreating(cfg, path, value) ==
  LET co == cfg["compilerOptions"]
  IN IF Len(path) = 1
     THEN Assign(cfg, "compilerOptions", Assign(co, path[1], Str(value)))
     ELSE IF Has(co, path[1]) /\ co[path[1]].t = "array"
          THEN Assign(cfg, "compilerOptions",
                 Assign(co, path[1],
                        Arr([co[path[1]].a EXCEPT ![IndexOfString(path[2]) + 1] =
                               Str(value)])))
          ELSE Assign(cfg, "compilerOptions", Assign(co, path[1], Arr(<<Str(value)>>)))

\* The walk from this.config.compilerOptions along error.path, and the
\* assignment target[last] = correction; when the container is absent (or
\* falsy) nothing is written. The correction is the string the operator typed.
ApplyCorrection(cfg, path, value) ==
  LET co == cfg["compilerOptions"]
  IN IF Len(path) = 1
     THEN Assign(cfg, "compilerOptions", Assign(co, path[1], Str(value)))
     ELSE IF Has(co, path[1]) /\ co[path[1]].t = "array"
          THEN Assign(cfg, "compilerOptions",
                 Assign(co, path[1],
                        Arr([co[path[1]].a EXCEPT ![IndexOfString(path[2]) + 1] =
                               Str(value)])))
          ELSE cfg

\* incorporateDependencyConfigs on the value of the configuration: the analyzer
\* keeps only the returned object. The dependencies of these analyses declare
\* `types` or nothing; the folding of `paths` is FoldDependency's.
RECURSIVE IncorporateFrom(_, _, _)
IncorporateFrom(cfg, deps, i) ==
  IF i > Len(deps) THEN cfg
  ELSE LET dep == deps[i].config
           co == cfg["compilerOptions"]
           types == IF Has(co, "types") THEN co["types"].a ELSE <<>>
       IN IF Has(dep, "compilerOptions") /\ Has(dep["compilerOptions"], "types")
          THEN IncorporateFrom(
                 Assign(cfg, "compilerOptions",
                        Assign(co, "types",
                               Arr(types \o [k \in 1..Len(dep["compilerOptions"]["types"]) |->
                                              Str(dep["compilerOptions"]["types"][k])]))),
                 deps, i + 1)
          ELSE IncorporateFrom(cfg, deps, i + 1)

IncorporateDependencies(cfg, deps) ==
  IncorporateFrom(IF Has(cfg, "compilerOptions") THEN cfg
                  ELSE Assign(cfg, "compilerOptions", EmptyObject),
                  deps, 1)

\* Mutant of LoadThrows: the error is swallowed whatever the options say.
LoadThrowsNever(failAt, ignoreErrors) == FALSE

\* readAndParseConfig's catch: `if (!this.options.ignoreErrors) throw error`.
LoadThrows(failAt, ignoreErrors) == failAt # "none" /\ ~ignoreErrors

\* this.config after readAndParseConfig, by the step that failed.
LoadedConfig(p) ==
  CASE p.failAt = "merge" -> NoConfig
    [] p.failAt = "structure" -> Held(p.merged)
    [] OTHER -> Held(IncorporateDependencies(p.merged, p.deps))

\* this.projectStructure after readAndParseConfig.
LoadedStructure(p) ==
  IF p.failAt = "none" THEN [present |-> TRUE, files |-> p.files]
  ELSE [present |-> FALSE, files |-> <<>>]

\* analyzeConfig's return without a configuration.
NoConfigurationResult ==
  [returned |-> TRUE, valid |-> FALSE, messages |-> <<"No configuration found">>,
   report |-> <<>>, suggestedFixes |-> <<>>]

NoResult ==
  [returned |-> FALSE, valid |-> FALSE, messages |-> <<>>, report |-> <<>>,
   suggestedFixes |-> <<>>]

\* this.validateCompilerOptions() without compilerOptions.
NoCompilerOptions ==
  [valid |-> FALSE,
   errors |-> <<ZodIssue(<<>>, "custom",
                         "No compiler options found in tsconfig.json or extended configs")>>]

\* Mutant of NeedsCorrection: the corrector runs whatever ignoreErrors says.
NeedsCorrectionAlways(valid, ignoreErrors) == ~valid

\* `if (!valid && !this.options.ignoreErrors)`
NeedsCorrection(valid, ignoreErrors) == ~valid /\ ~ignoreErrors

\* The messages analyzeConfig pushes for the validation result.
ValidationMessages(v) ==
  IF ~v.valid
  THEN <<"Compiler options validation failed:">>
         \o [i \in 1..Len(v.errors) |-> v.errors[i].message]
  ELSE <<"Compiler options are valid.">>

\* The messages analyzeConfig pushes for the project structure.
StructureMessages(projectStructure, cfg) ==
  IF projectStructure.present
  THEN <<"Project structure analysis:">> \o analyzeProjectStructure(projectStructure, cfg)
  ELSE <<"Warning: Project structure analysis skipped - no structure data available.">>

\* The messages analyzeConfig pushes for the detected issues.
IssueMessages(issues, autoFix) ==
  IF Len(issues) > 0
  THEN <<"Common issues detected:">>
         \o [i \in 1..Len(issues) |-> "- " \o issues[i].description]
         \o (IF autoFix THEN <<"Automatic fixes applied.">> ELSE <<>>)
  ELSE <<"No common issues detected.">>

\* generateReport([{ configPath: "", config, valid, messages }]) as its lines up
\* to the messages; the suggestions that follow are left out.
TextReport(valid, messages) ==
  <<"TypeScript Configuration Analysis Report",
    "Overall Validity: " \o (IF valid THEN "Valid" ELSE "Invalid"),
    "Analysis Messages:">>
    \o [i \in 1..Len(messages) |-> "- " \o messages[i]]

\* Mutant of ResultValid: detected issues lower the flag.
ResultValidNoIssues(valid, ignoreErrors, issues) ==
  (valid /\ issues = <<>>) \/ ignoreErrors

\* `valid: valid || !!this.options.ignoreErrors`
ResultValid(valid, ignoreErrors, issues) == valid \/ ignoreErrors

\* What analyzeConfig returns, from the validation result and the configuration
\* held before the auto-fix loop, when no check of the catalog throws.
AnalysisResult(cfg, projectStructure, v, opts) ==
  LET issues == analyzeCommonIssues(cfg)
      messages == ValidationMessages(v)
                    \o StructureMessages(projectStructure, cfg)
                    \o IssueMessages(issues, opts.autoFix)
  IN [returned |-> FALSE,
      valid |-> ResultValid(v.valid, opts.ignoreErrors, issues),
      messages |-> messages,
      report |-> TextReport(v.valid, messages),
      suggestedFixes |->
        [i \in 1..Len(issues) |->
           [description |-> issues[i].description, reason |-> issues[i].reason]]]

\* The merged configurations of the analyzed projects.
InvalidTargetConfig ==
  ("compilerOptions" :> (("target" :> Str("invalid")) @@ ("strict" :> Bool(TRUE))))
    @@ ("files" :> <<"src/a.ts">>)

NumericTargetConfig == "compilerOptions" :> ("target" :> Num("5"))

BadLibConfig ==
  "compilerOptions" :>
    (("lib" :> Arr(<<Num("1"), Str("dom"), Null>>)) @@ ("strict" :> Str("yes")))

NoOptionsConfig == "include" :> <<"src/*">>

CleanConfig ==
  "compilerOptions" :>
    [o \in IssueOptions |->
       CASE o = "target" -> Str("es2022")
         [] o = "module" -> Str("esnext")
         [] OTHER -> Bool(TRUE)]

\* The project of the end-to-end example: one tsconfig.json, no dependencies.
ExampleProject ==
  [merged |-> MergeOne(EmptyObject, exampleConfig), failAt |-> "none",
   files |-> <<"tsconfig.json", "src/b.ts">>, deps |-> <<>>]

Projects ==
  {ExampleProject,
   [merged |-> EmptyObject, failAt |-> "merge", files |-> <<>>, deps |-> <<>>]}
    \cup {[merged |-> c, failAt |-> "none", files |-> <<"src/b.ts">>, deps |-> <<>>] :
            c \in {InvalidTargetConfig, NumericTargetConfig, BadLibConfig, CleanConfig}}
    \cup {[merged |-> c, failAt |-> "none", files |-> <<"src/b.ts">>,
           deps |-> <<[name |-> "alpha", config |-> DepTypesOnly],
                      [name |-> "beta", config |-> DepNoOptions]>>] :
            c \in {NoOptionsConfig, InvalidTargetConfig}}
    \cup {[merged |-> c, failAt |-> "structure", files |-> <<>>, deps |-> <<>>] :
            c \in {NoOptionsConfig, InvalidTargetConfig}}

AnalyzerIdle ==
  /\ cliOptions = [ignoreErrors |-> FALSE, autoFix |-> FALSE]
  /\ analysisCount = 0
  /\ projectRoot = ExampleProject
  /\ thisConfig = NoConfig
  /\ thisStructure = [present |-> FALSE, files |-> <<>>]
  /\ effective = NoConfig
  /\ errors = <<>>
  /\ errIdx = 0
  /\ correctedErrors = <<>>
  /\ shouldCorrect = ""
  /\ correction = ""
  /\ outstanding = {}
  /\ prompts = <<>>
  /\ userInputs = EmptyObject
  /\ validated = [valid |-> TRUE, errors |-> <<>>]
  /\ result = NoResult
  /\ autoFixIdx = 0
  /\ apc = "idle"

\* The analyze command has parsed its options; no answer is saved yet.
AnalyzerInit ==
  /\ cliOptions \in [ignoreErrors : BOOLEAN, autoFix : BOOLEAN]
  /\ analysisCount = 0
  /\ projectRoot = ExampleProject
  /\ thisConfig = NoConfig
  /\ thisStructure = [present |-> FALSE, files |-> <<>>]
  /\ effective = NoConfig
  /\ errors = <<>>
  /\ errIdx = 0
  /\ correctedErrors = <<>>
  /\ shouldCorrect = ""
  /\ correction = ""
  /\ outstanding = {}
  /\ prompts = <<>>
  /\ userInputs = EmptyObject
  /\ validated = [valid |-> TRUE, errors |-> <<>>]
  /\ result = NoResult
  /\ autoFixIdx = 0
  /\ apc = "next"

\* The error handleValidationErrors is at, and its path joined.
CurrentError == errors[errIdx]
CurrentPath == JoinPath(CurrentError.path)

\* The analyze command's loop: analyzeTSConfig(configPath, options) with a new
\* TSConfigAnalyzer for the next discovered file.
StartAnalysis ==
  /\ UNCHANGED notAnalyzerVars
  /\ apc \in {"next", "returned"}
  /\ analysisCount < MaxAnalyses
  /\ analysisCount' = analysisCount + 1
  /\ projectRoot' \in Projects
  /\ thisConfig' = NoConfig
  /\ thisStructure' = [present |-> FALSE, files |-> <<>>]
  /\ effective' = NoConfig
  /\ errors' = <<>>
  /\ errIdx' = 0
  /\ correctedErrors' = <<>>
  /\ shouldCorrect' = ""
  /\ correction' = ""
  /\ outstanding' = {}
  /\ prompts' = <<>>
  /\ validated' = [valid |-> TRUE, errors |-> <<>>]
  /\ result' = NoResult
  /\ autoFixIdx' = 0
  /\ apc' = "read"
  /\ UNCHANGED <<cliOptions, userInputs>>

\* readAndParseConfig: the steps up to the one that fails set this.config and
\* this.projectStructure; the catch rethrows unless ignoreErrors is set.
ReadAndParseConfig ==
  /\ UNCHANGED notAnalyzerVars
  /\ apc = "read"
  /\ thisConfig' = LoadedConfig(projectRoot)
  /\ thisStructure' = LoadedStructure(projectRoot)
  /\ effective' = thisConfig'
  /\ apc' = IF LoadThrows(projectRoot.failAt, cliOptions.ignoreErrors) THEN "threw" ELSE "analyze"
  /\ UNCHANGED <<cliOptions, analysisCount, projectRoot, errors, errIdx, correctedErrors,
                 shouldCorrect, correction, outstanding, prompts, userInputs, validated, result,
                 autoFixIdx>>

\* analyzeConfig: `if (!this.config) return { valid: false, ... }`.
ReturnNoConfiguration ==
  /\ UNCHANGED notAnalyzerVars
  /\ apc = "analyze"
  /\ ~thisConfig.present
  /\ result' = NoConfigurationResult
  /\ apc' = "returned"
  /\ UNCHANGED <<cliOptions, analysisCount, projectRoot, thisConfig, thisStructure, effective,
                 errors, errIdx, correctedErrors, shouldCorrect, correction, outstanding, prompts, userInputs,
                 validated,
                 autoFixIdx>>

\* this.validateCompilerOptions() up to its return or its call of
\* handleValidationErrors(errors).
ValidateOptions ==
  /\ UNCHANGED notAnalyzerVars
  /\ apc = "analyze"
  /\ thisConfig.present
  /\ IF ~Has(thisConfig.value, "compilerOptions")
     THEN /\ validated' = NoCompilerOptions
          /\ apc' = "validated"
          /\ UNCHANGED <<errors, errIdx>>
     ELSE LET v == validateCompilerOptions(thisConfig.value["compilerOptions"])
          IN IF NeedsCorrection(v.valid, cliOptions.ignoreErrors)
             THEN /\ errors' = v.errors
                  /\ errIdx' = 1
                  /\ apc' = "handle"
                  /\ UNCHANGED validated
             ELSE /\ validated' = v
                  /\ apc' = "validated"
                  /\ UNCHANGED <<errors, errIdx>>
  /\ correctedErrors' = <<>>
  /\ UNCHANGED <<cliOptions, analysisCount, projectRoot, thisConfig, thisStructure, effective,
                 shouldCorrect, correction, outstanding, prompts, userInputs, result,
                 autoFixIdx>>

\* handleValidationErrors: promptUser("Do you want to correct the error ...",
\* `correct_error_${errorPath}`) is called: a saved answer is returned without
\* asking, otherwise rl.question is awaited.
AskShouldCorrect ==
  /\ UNCHANGED notAnalyzerVars
  /\ apc = "handle"
  /\ errIdx <= Len(errors)
  /\ LET id == "correct_error_" \o CurrentPath
     IN IF HasSavedAnswer(userInputs, id)
        THEN /\ shouldCorrect' = userInputs[id]
             /\ prompts' = Append(prompts, [id |-> id, answer |-> userInputs[id],
                                            saved |-> TRUE])
             /\ apc' = "asked"
             /\ UNCHANGED outstanding
        ELSE /\ outstanding' = outstanding \cup {id}
             /\ apc' = "awaitDecision"
             /\ UNCHANGED <<shouldCorrect, prompts>>
  /\ UNCHANGED <<cliOptions, analysisCount, projectRoot, thisConfig, thisStructure, effective,
                 errors, errIdx, correctedErrors, correction, userInputs, validated,
                 result, autoFixIdx>>

\* promptUser: the operator answers the yes/no question; the answer is saved
\* under the id and returned.
AnswerShouldCorrect ==
  /\ UNCHANGED notAnalyzerVars
  /\ apc = "awaitDecision"
  /\ LET id == "correct_error_" \o CurrentPath
     IN \E answer \in OperatorAnswers :
          /\ shouldCorrect' = answer
          /\ prompts' = Append(prompts, [id |-> id, answer |-> answer, saved |-> FALSE])
          /\ userInputs' = Assign(userInputs, id, answer)
          /\ outstanding' = outstanding \ {id}
  /\ apc' = "asked"
  /\ UNCHANGED <<cliOptions, analysisCount, projectRoot, thisConfig, thisStructure, effective,
                 errors, errIdx, correctedErrors, correction, validated, result,
                 autoFixIdx>>

\* handleValidationErrors: the answer is yes; promptUser("Enter the correct
\* value ...", `correction_${errorPath}`) is called.
AskCorrection ==
  /\ UNCHANGED notAnalyzerVars
  /\ apc = "asked"
  /\ Agrees(shouldCorrect)
  /\ LET id == "correction_" \o CurrentPath
     IN IF HasSavedAnswer(userInputs, id)
        THEN /\ correction' = userInputs[id]
             /\ prompts' = Append(prompts, [id |-> id, answer |-> userInputs[id],
                                            saved |-> TRUE])
             /\ apc' = "answered"
             /\ UNCHANGED outstanding
        ELSE /\ outstanding' = outstanding \cup {id}
             /\ apc' = "awaitValue"
             /\ UNCHANGED <<correction, prompts>>
  /\ UNCHANGED <<cliOptions, analysisCount, projectRoot, thisConfig, thisStructure, effective,
                 errors, errIdx, correctedErrors, shouldCorrect, userInputs, validated,
                 result, autoFixIdx>>

\* promptUser: the operator enters the replacement value; it is saved under
\* the id and returned.
AnswerCorrection ==
  /\ UNCHANGED notAnalyzerVars
  /\ apc = "awaitValue"
  /\ LET id == "correction_" \o CurrentPath
     IN \E value \in OperatorCorrections :
          /\ correction' = value
          /\ prompts' = Append(prompts, [id |-> id, answer |-> value, saved |-> FALSE])
          /\ userInputs' = Assign(userInputs, id, value)
          /\ outstanding' = outstanding \ {id}
  /\ apc' = "answered"
  /\ UNCHANGED <<cliOptions, analysisCount, projectRoot, thisConfig, thisStructure, effective,
                 errors, errIdx, correctedErrors, shouldCorrect, validated, result,
                 autoFixIdx>>

\* handleValidationErrors: the write of the correction into this.config, and
\* the next iteration.
CorrectError ==
  /\ UNCHANGED notAnalyzerVars
  /\ apc = "answered"
  /\ thisConfig' = Held(ApplyCorrection(thisConfig.value, CurrentError.path, correction))
  /\ errIdx' = errIdx + 1
  /\ apc' = "handle"
  /\ UNCHANGED <<cliOptions, analysisCount, projectRoot, thisStructure, effective, errors,
                 correctedErrors, shouldCorrect, correction, outstanding, prompts,
                 userInputs, validated, result, autoFixIdx>>

\* handleValidationErrors: any other answer; the error stays in the list.
RejectError ==
  /\ UNCHANGED notAnalyzerVars
  /\ apc = "asked"
  /\ ~Agrees(shouldCorrect)
  /\ correctedErrors' = Append(correctedErrors, RejectedError(CurrentError))
  /\ errIdx' = errIdx + 1
  /\ apc' = "handle"
  /\ UNCHANGED <<cliOptions, analysisCount, projectRoot, thisConfig, thisStructure, effective,
                 errors, shouldCorrect, correction, outstanding, prompts, userInputs,
                 validated, result, autoFixIdx>>

\* handleValidationErrors returns; validateCompilerOptions returns
\* { valid: correctedErrors.length === 0, errors: [...correctedErrors] }.
HandleReturn ==
  /\ UNCHANGED notAnalyzerVars
  /\ apc = "handle"
  /\ errIdx > Len(errors)
  /\ validated' = [valid |-> Len(correctedErrors) = 0, errors |-> correctedErrors]
  /\ apc' = "validated"
  /\ UNCHANGED <<cliOptions, analysisCount, projectRoot, thisConfig, thisStructure, effective,
                 errors, errIdx, correctedErrors, shouldCorrect, correction, outstanding, prompts, userInputs,
                 result,
                 autoFixIdx>>

\* analyzeConfig from the validation result to the auto-fix loop: the messages,
\* the structure analysis and the detection of common issues (which fix what
\* the result will hold).
DetectCommonIssues ==
  /\ UNCHANGED notAnalyzerVars
  /\ apc = "validated"
  /\ ~CheckThrows(thisConfig.value)
  /\ result' = AnalysisResult(thisConfig.value, thisStructure, validated, cliOptions)
  /\ autoFixIdx' = 0
  /\ apc' = IF cliOptions.autoFix /\ Len(result'.suggestedFixes) > 0
            THEN "autofix" ELSE "report"
  /\ UNCHANGED <<cliOptions, analysisCount, projectRoot, thisConfig, thisStructure,
                 effective, errors, errIdx, correctedErrors, shouldCorrect, correction, outstanding, prompts,
                 userInputs, validated>>

\* analyzeConfig: one iteration of
\* `for (let i = 0; i < commonIssues.length; i++) this.config = applyFix(this.config, i)`.
AutoFix ==
  /\ UNCHANGED notAnalyzerVars
  /\ apc = "autofix"
  /\ autoFixIdx < Len(result.suggestedFixes)
  /\ thisConfig' = Held(applyFix(thisConfig.value, autoFixIdx))
  /\ autoFixIdx' = autoFixIdx + 1
  /\ UNCHANGED <<cliOptions, analysisCount, projectRoot, thisStructure, effective, errors,
                 errIdx, correctedErrors, shouldCorrect, correction, outstanding, prompts, userInputs, validated,
                 result, apc>>

\* analyzeConfig: the loop is over (or was not entered); the report is generated
\* and the result returned.
ReturnResult ==
  /\ UNCHANGED notAnalyzerVars
  /\ \/ apc = "report"
     \/ apc = "autofix" /\ autoFixIdx >= Len(result.suggestedFixes)
  /\ result' = [result EXCEPT !.returned = TRUE]
  /\ apc' = "returned"
  /\ UNCHANGED <<cliOptions, analysisCount, projectRoot, thisConfig, thisStructure,
                 effective, errors, errIdx, correctedErrors, shouldCorrect, correction, outstanding, prompts,
                 userInputs, validated, autoFixIdx>>

\* analyzeConfig: a check of the catalog calls toLowerCase on a target or module
\* that is no string; the TypeError leaves analyzeConfig and analyzeTSConfig, and
\* the analyze command catches it and exits.
AnalysisThrows ==
  /\ UNCHANGED notAnalyzerVars
  /\ apc = "validated"
  /\ CheckThrows(thisConfig.value)
  /\ apc' = "threw"
  /\ UNCHANGED <<cliOptions, analysisCount, projectRoot, thisConfig, thisStructure, effective,
                 errors, errIdx, correctedErrors, shouldCorrect, correction, outstanding, prompts, userInputs,
                 validated, result,
                 autoFixIdx>>

AnalyzerNext ==
  \/ StartAnalysis
  \/ ReadAndParseConfig
  \/ ReturnNoConfiguration
  \/ ValidateOptions
  \/ AskShouldCorrect
  \/ AnswerShouldCorrect
  \/ AskCorrection
  \/ AnswerCorrection
  \/ CorrectError
  \/ RejectError
  \/ HandleReturn
  \/ DetectCommonIssues
  \/ AutoFix
  \/ ReturnResult
  \/ AnalysisThrows

----------------------------------------------------------------------------
(* Specifications, one per component.                                      *)

InitMerge == MergeInit /\ FoldIdle /\ ValidateIdle /\ IssueIdle /\ DiscoverIdle /\ StructureIdle
    /\ AnalyzerIdle

SpecMerge == InitMerge /\ [][MergeNext]_vars

----------------------------------------------------------------------------
(* Claims about config-finder, checked under SpecMerge.                    *)

\* The sources mergeConfigs was given, in selection order.
LoadedSources == [i \in 1..Len(relevantConfigs) |-> fileSystem[relevantConfigs[i]]]

\* The index of the earliest source satisfying Defines.
Earliest(Defines(_)) ==
  CHOOSE i \in DOMAIN LoadedSources :
    Defines(i) /\ \A j \in DOMAIN LoadedSources : Defines(j) => i <= j

RECURSIVE SumOver(_, _)
SumOver(f, D) ==
  IF D = {} THEN 0
  ELSE LET d == CHOOSE d \in D : TRUE IN f[d] + SumOver(f, D \ {d})

AllRanked(files) == \A i \in DOMAIN files : configPriority(basename(files[i])) # Undefined

\* C2: for a non-empty discovered list of ranked filenames, the front of the
\* selected list has the lowest rank number among all discovered files.
C2_FrontIsHighestPriority ==
  (mpc = "read" /\ configFiles # <<>> /\ AllRanked(configFiles)) =>
    /\ relevantConfigs # <<>>
    /\ \A i \in DOMAIN configFiles :
         priorityOf(relevantConfigs[1]) <= priorityOf(configFiles[i])

\* Three ranked files were discovered with the highest-ranked one last, and the
\* selection has moved it to the front.
C2_Witness ==
  /\ mpc = "read"
  /\ Len(configFiles) = 3
  /\ AllRanked(configFiles)
  /\ priorityOf(configFiles[3]) < priorityOf(configFiles[1])
  /\ priorityOf(configFiles[1]) < priorityOf(configFiles[2])
  /\ relevantConfigs[1] = configFiles[3]

\* C3: for include, exclude and files, the merged array holds every element of
\* every source's array with its multiplicity (length = sum of the lengths); the
\* key is merged exactly when some source has it.
C3_ArrayUnion ==
  mpc = "returned" =>
    \A p \in DOMAIN ARRAY_PROPS :
      LET prop == ARRAY_PROPS[p]
          src == LoadedSources
          having == {i \in DOMAIN src : Has(src[i], prop)}
          lens == [i \in having |-> Len(src[i][prop])]
          elems == UNION {Range(src[i][prop]) : i \in having}
      IN /\ Has(mergedConfig, prop) <=> having # {}
         /\ having # {} =>
              /\ Len(mergedConfig[prop]) = SumOver(lens, having)
              /\ \A e \in elems \cup Range(mergedConfig[prop]) :
                   Count(mergedConfig[prop], e)
                     = SumOver([i \in having |-> Count(src[i][prop], e)], having)

\* Two sources list the same include entry and the merged include holds it twice.
C3_Witness ==
  /\ mpc = "returned"
  /\ \E i, j \in DOMAIN LoadedSources :
       /\ i # j
       /\ Has(LoadedSources[i], "include")
       /\ Has(LoadedSources[j], "include")
       /\ "src" \in Range(LoadedSources[i]["include"])
       /\ "src" \in Range(LoadedSources[j]["include"])
  /\ Count(mergedConfig["include"], "src") >= 2

SomeRanked(files) == \E i \in DOMAIN files : configPriority(basename(files[i])) # Undefined

PositionOf(list, file) == CHOOSE i \in DOMAIN list : list[i] = file

\* C20: the selected list is a permutation of the discovered files handled so
\* far, and two files of the same priority rank keep their discovery order.
C20_StableTies ==
  mpc \in {"determine", "read"} =>
    LET handled == SubSeq(configFiles, 1, idx - 1)
    IN /\ Len(relevantConfigs) = Len(handled)
       /\ \A i \in DOMAIN handled : Count(relevantConfigs, handled[i]) = 1
       /\ \A i, j \in DOMAIN handled :
            (i < j /\ priorityOf(handled[i]) = priorityOf(handled[j])) =>
              PositionOf(relevantConfigs, handled[i]) < PositionOf(relevantConfigs, handled[j])

\* Two tsconfig.json of different directories were discovered after a file of a
\* worse rank; the selection reordered the list and kept the two in order.
C20_Witness ==
  /\ mpc = "read"
  /\ Len(configFiles) = 3
  /\ basename(configFiles[2]) = "tsconfig.json"
  /\ basename(configFiles[3]) = "tsconfig.json"
  /\ relevantConfigs = <<configFiles[2], configFiles[1], configFiles[3]>>

\* C21: the selection is not a stable sort by rank. When three ranked files are
\* discovered in an order <<a, b, c>> with rank(a) < rank(c) < rank(b) (such as
\* tsconfig.app.json, jsconfig.json, tsconfig.node.json), the selected list is
\* <<a, b, c>>, whose entries after the front are in decreasing rank order, and
\* every compilerOptions key that b and c define and a does not is merged with
\* the value of b, the file of lower priority.
C21_NotSortedByRank ==
  (/\ mpc \in {"read", "reverse", "merge", "returned"}
   /\ Len(configFiles) = 3
   /\ AllRanked(configFiles)
   /\ priorityOf(configFiles[1]) < priorityOf(configFiles[3])
   /\ priorityOf(configFiles[3]) < priorityOf(configFiles[2])) =>
    /\ relevantConfigs = configFiles
    /\ priorityOf(relevantConfigs[2]) > priorityOf(relevantConfigs[3])
    /\ mpc = "returned" =>
         LET a == fileSystem[configFiles[1]]
             b == fileSystem[configFiles[2]]
             c == fileSystem[configFiles[3]]
         IN (Has(b, "compilerOptions") /\ Has(c, "compilerOptions")) =>
              \A k \in (DOMAIN b["compilerOptions"]) \cap (DOMAIN c["compilerOptions"]) :
                (~Has(a, "compilerOptions") \/ ~Has(a["compilerOptions"], k)) =>
                  mergedConfig["compilerOptions"][k] = b["compilerOptions"][k]

\* tsconfig.app.json, jsconfig.json and tsconfig.node.json were discovered in
\* this order; jsconfig.json and tsconfig.node.json give target different values,
\* tsconfig.app.json gives it none, and the merge returned jsconfig.json's.
C21_Witness ==
  /\ mpc = "returned"
  /\ configFiles = <<(<<"tsconfig.app.json">>), (<<"jsconfig.json">>), (<<"tsconfig.node.json">>)>>
  /\ ~Has(fileSystem[<<"tsconfig.app.json">>], "compilerOptions")
  /\ Has(fileSystem[<<"jsconfig.json">>], "compilerOptions")
  /\ Has(fileSystem[<<"tsconfig.node.json">>], "compilerOptions")
  /\ fileSystem[<<"jsconfig.json">>]["compilerOptions"]["target"]
       # fileSystem[<<"tsconfig.node.json">>]["compilerOptions"]["target"]
  /\ mergedConfig["compilerOptions"]["target"]
       = fileSystem[<<"jsconfig.json">>]["compilerOptions"]["target"]

InitFold == MergeIdle /\ FoldInit /\ ValidateIdle /\ IssueIdle /\ DiscoverIdle /\ StructureIdle
    /\ AnalyzerIdle

SpecFold == InitFold /\ [][FoldNext]_vars

----------------------------------------------------------------------------
(* Claims about incorporateDependencyConfigs, checked under SpecFold.      *)

\* compilerOptions.paths of the configuration returned.
ReturnedPaths ==
  LET opts == heap[updatedConfig].refs["compilerOptions"]
  IN IF Has(heap[opts].refs, "paths")
     THEN heap[heap[opts].refs["paths"]].vals
     ELSE NoVals

\* C9: for every dependency D declaring compilerOptions.paths and every key K
\* mapped to T1..Tn, the returned configuration maps "D/K" to
\* node_modules/D/T1 .. node_modules/D/Tn in the same order.
C9_DependencyFold ==
  fpc = "done" =>
    \A i \in DOMAIN dependencyConfigs :
      LET D == dependencyConfigs[i].name
          cfg == dependencyConfigs[i].config
      IN (Has(cfg, "compilerOptions") /\ Has(cfg["compilerOptions"], "paths")) =>
           \A K \in DOMAIN cfg["compilerOptions"]["paths"] :
             LET T == cfg["compilerOptions"]["paths"][K]
                 key == D \o "/" \o K
             IN /\ Has(ReturnedPaths, key)
                /\ Len(ReturnedPaths[key]) = Len(T)
                /\ \A n \in DOMAIN T :
                     ReturnedPaths[key][n] = "node_modules/" \o D \o "/" \o T[n]

\* The fold has returned for a project with its own path mappings and two
\* dependencies, one of them scoped, both declaring paths; a key with two
\* targets has been folded.
C9_Witness ==
  /\ fpc = "done"
  /\ projectConfig0 = Deep(ProjectWithPaths, 1)
  /\ Len(dependencyConfigs) = 2
  /\ dependencyConfigs[1] = [name |-> "alpha", config |-> DepPathsOnly]
  /\ dependencyConfigs[2] = [name |-> "@scope/gamma", config |-> DepPathsAndTypes]
  /\ ReturnedPaths["alpha/lib/*"]
       = <<"node_modules/alpha/dist/lib/*", "node_modules/alpha/types/lib/*">>
  /\ ReturnedPaths["@scope/gamma/*"] = <<"node_modules/@scope/gamma/types/*">>

\* C10: after incorporateDependencyConfigs has returned, the project
\* configuration passed in (with its compilerOptions, paths and types) and the
\* dependency configurations have the values they had at the call.
C10_PureTransform ==
  fpc = "done" =>
    /\ Deep(heap, projectConfig) = projectConfig0
    /\ dependencyConfigs = dependencyConfigs0

InitValidate == MergeIdle /\ FoldIdle /\ ValidateInit /\ IssueIdle /\ DiscoverIdle /\ StructureIdle
    /\ AnalyzerIdle

SpecValidate == InitValidate /\ [][ValidateNext]_vars

----------------------------------------------------------------------------
(* Claims about validateCompilerOptions, checked under SpecValidate.       *)

\* The field of the schema with this name.
SchemaField(name) ==
  compilerOptionsSchema[CHOOSE i \in DOMAIN compilerOptionsSchema :
                          compilerOptionsSchema[i].name = name]

RecognizedOptions == {compilerOptionsSchema[i].name : i \in DOMAIN compilerOptionsSchema}

\* The value has the shape the schema expects of the option.
HasExpectedShape(name, value) ==
  LET field == SchemaField(name)
  IN CASE field.kind = "enum" -> value.t = "string" /\ value.s \in field.choices
       [] field.kind = "array" ->
            value.t = "array" /\ \A i \in DOMAIN value.a : value.a[i].t = "string"
       [] OTHER -> value.t = field.kind

\* The recognized options of the settings object whose value is not of the
\* expected shape.
OffendingFields ==
  {k \in (DOMAIN options) \cap RecognizedOptions : ~HasExpectedShape(k, options[k])}

ErrorsAt(path) ==
  {i \in DOMAIN validation.errors : validation.errors[i].path = path}

ErrorsOf(name) ==
  {i \in DOMAIN validation.errors : validation.errors[i].path[1] = name}

\* C5 as stated: valid exactly when no recognized option offends, and otherwise
\* exactly one error per offending field, whose path names that field.
C5_OneErrorPerField ==
  vpc = "done" =>
    /\ validation.valid <=> OffendingFields = {}
    /\ Len(validation.errors) = Cardinality(OffendingFields)
    /\ \A k \in OffendingFields : Cardinality(ErrorsOf(k)) = 1

\* C5 amended: valid exactly when no recognized option offends; every error
\* belongs to an offending field; an offending field has exactly one error, at
\* [field], unless it is the list option (lib) holding an array, which has
\* exactly one error per element that is no string, at [lib, index], and none
\* at the other indices. {target: "invalid"} has
\* exactly one error, at [target]; the empty settings object is valid.
C5_SchemaValidation ==
  vpc = "done" =>
    /\ validation.valid <=> OffendingFields = {}
    /\ validation.valid <=> validation.errors = <<>>
    /\ \A i \in DOMAIN validation.errors :
         validation.errors[i].path[1] \in OffendingFields
    /\ \A k \in OffendingFields :
         IF SchemaField(k).kind = "array" /\ options[k].t = "array"
         THEN /\ \A n \in DOMAIN options[k].a :
                   Cardinality(ErrorsAt(<<k, IndexString(n - 1)>>))
                     = IF options[k].a[n].t = "string" THEN 0 ELSE 1
              /\ Cardinality(ErrorsOf(k))
                   = Cardinality({n \in DOMAIN options[k].a : options[k].a[n].t # "string"})
         ELSE /\ Cardinality(ErrorsOf(k)) = 1
              /\ Cardinality(ErrorsAt(<<k>>)) = 1
    /\ options = ("target" :> Str("invalid")) =>
         /\ ~validation.valid
         /\ Len(validation.errors) = 1
         /\ validation.errors[1].path = <<"target">>
    /\ options = EmptyObject => validation.valid

\* {target: "invalid"} has been validated and reported with one error at [target].
C5_Witness ==
  /\ vpc = "done"
  /\ options = ("target" :> Str("invalid"))
  /\ ~validation.valid
  /\ Len(validation.errors) = 1
  /\ validation.errors[1].path = <<"target">>

InitIssues == MergeIdle /\ FoldIdle /\ ValidateIdle /\ IssueInit /\ DiscoverIdle /\ StructureIdle
    /\ AnalyzerIdle

SpecIssues == InitIssues /\ [][IssueNext]_vars

----------------------------------------------------------------------------
(* Claims about common-issues and the auto-fix loop, checked under         *)
(* SpecIssues.                                                             *)

\* The descriptions of the issues reported on a configuration.
Reported(cfg) ==
  LET issues == analyzeCommonIssues(cfg)
  IN {issues[i].description : i \in DOMAIN issues}

\* C6: with autoFix on, when the loop over the indices 0..n-1 of the n detected
\* issues has ended, the configuration held triggers none of the rules that
\* were detected at the start.
C6_AutoFixComplete ==
  ipc = "fixed" =>
    \A i \in DOMAIN detected : detected[i].description \notin Reported(config)

\* C7: for every issue returned by analyzeCommonIssues on a configuration,
\* analyzeCommonIssues on the issue's fix does not report the issue's rule.
C7_IdempotentFix ==
  (ipc \in {"done", "autofix"} /\ fixIdx = 0) =>
    \A i \in DOMAIN detected :
      detected[i].description \notin Reported(detected[i].fix)

\* The module rule was detected on a configuration whose module is written
\* (commonjs) and its fix, which writes "ESNext", is not reported again; so was
\* the target rule.
C7_Witness ==
  /\ ipc = "done"
  /\ config = exampleConfig
  /\ \E i, j \in DOMAIN detected :
       /\ detected[i].description = "Module is not set to ESNext"
       /\ detected[i].fix["compilerOptions"]["module"] = Str("ESNext")
       /\ detected[j].description = "Target is set to an outdated ECMAScript version"
       /\ detected[j].fix["compilerOptions"]["target"] = Str("es2022")

\* The rules of the catalog violated by a configuration, in catalog order.
ViolatedRules(cfg) ==
  LET reported == Reported(cfg)
  IN SelectSeq(commonIssues, LAMBDA issue : issue.description \in reported)

\* C8: applyFix(config, index) returns the fix of the index-th issue detected
\* on the configuration it is given (that configuration with the rule's option
\* set to the corrected value) when 0 <= index < number of issues, and the
\* configuration itself for every other index.
C8_ApplyFix ==
  lastFix # <<>> =>
    LET rules == ViolatedRules(lastFix.input)
    IN IF 0 <= lastFix.index /\ lastFix.index < Len(rules)
       THEN LET rule == rules[lastFix.index + 1]
            IN /\ lastFix.output["compilerOptions"][rule.option] = rule.fixValue
               /\ \A k \in DOMAIN lastFix.input : k # "compilerOptions" =>
                    lastFix.output[k] = lastFix.input[k]
               /\ Has(lastFix.input, "compilerOptions") =>
                    \A o \in DOMAIN lastFix.input["compilerOptions"] : o # rule.option =>
                      lastFix.output["compilerOptions"][o]
                        = lastFix.input["compilerOptions"][o]
               /\ lastFix.output = analyzeCommonIssues(lastFix.input)[lastFix.index + 1].fix
       ELSE lastFix.output = lastFix.input

\* The auto-fix loop has called applyFix with an index that has overtaken the
\* shrunken issue list, and got the configuration back unchanged.
C8_WitnessStale ==
  /\ ipc = "autofix"
  /\ lastFix # <<>>
  /\ lastFix.index >= Len(analyzeCommonIssues(lastFix.input))
  /\ lastFix.index < Len(detected)
  /\ lastFix.output = lastFix.input

\* A caller has applied the fix at index 1 of the example configuration: the
\* target is corrected and the other options are kept.
C8_Witness ==
  /\ ipc = "applied"
  /\ lastFix.input = exampleConfig
  /\ lastFix.index = 1
  /\ lastFix.output["compilerOptions"]["target"] = Str("es2022")
  /\ lastFix.output["compilerOptions"]["strict"] = Bool(FALSE)

\* C25 as stated: for a configuration whose compilerOptions pass
\* validateCompilerOptions, the fix of every issue detected on it passes
\* validateCompilerOptions too.
C25_FixesPreserveValidity ==
  (ipc \in {"done", "autofix"} /\ fixIdx = 0
     /\ Has(config0, "compilerOptions")
     /\ validateCompilerOptions(config0["compilerOptions"]).valid) =>
    \A i \in DOMAIN detected :
      validateCompilerOptions(detected[i].fix["compilerOptions"]).valid

\* The place in the catalog of the rule with this description.
CatalogIndex(description) ==
  CHOOSE n \in DOMAIN commonIssues : commonIssues[n].description = description

\* C26: analyzeCommonIssues leaves the configuration it is given as it was,
\* reports the issues in the order of the catalog, and the fix of each reported
\* issue is the given configuration with the rule's one compilerOptions setting
\* corrected: every other compilerOptions key and every top-level key is kept.
C26_FixFrame ==
  (ipc \in {"done", "autofix"} /\ fixIdx = 0) =>
    /\ config = config0
    /\ \A i, j \in DOMAIN detected :
         i < j => CatalogIndex(detected[i].description) < CatalogIndex(detected[j].description)
    /\ \A i \in DOMAIN detected :
         LET rule == commonIssues[CatalogIndex(detected[i].description)]
             fix == detected[i].fix
             co == IF Has(config0, "compilerOptions")
                   THEN config0["compilerOptions"] ELSE EmptyObject
         IN /\ DOMAIN fix = (DOMAIN config0) \cup {"compilerOptions"}
            /\ \A k \in (DOMAIN config0) \ {"compilerOptions"} : fix[k] = config0[k]
            /\ DOMAIN fix["compilerOptions"] = (DOMAIN co) \cup {rule.option}
            /\ \A o \in (DOMAIN co) \ {rule.option} : fix["compilerOptions"][o] = co[o]
            /\ fix["compilerOptions"][rule.option] = rule.fixValue

\* A configuration with an include list, an outdated target and a module set
\* to esnext was analyzed: the target rule is reported second, and its fix
\* keeps the include list and the module.
C26_Witness ==
  /\ ipc = "done"
  /\ Has(config0, "include")
  /\ Has(config0, "compilerOptions")
  /\ DOMAIN config0["compilerOptions"] = {"target", "module"}
  /\ config0["compilerOptions"]["target"] = Str("es5")
  /\ config0["compilerOptions"]["module"] = Str("esnext")
  /\ Len(detected) = 12
  /\ detected[2].description = "Target is set to an outdated ECMAScript version"
  /\ detected[2].fix["include"] = config0["include"]
  /\ detected[2].fix["compilerOptions"]["module"] = Str("esnext")
  /\ detected[2].fix["compilerOptions"]["target"] = Str("es2022")

InitDiscover ==
  MergeIdle /\ FoldIdle /\ ValidateIdle /\ IssueIdle /\ DiscoverInit /\ StructureIdle
    /\ AnalyzerIdle

SpecDiscover == InitDiscover /\ [][DiscoverNext]_vars

----------------------------------------------------------------------------
(* Claims about findTSConfigs, checked under SpecDiscover.                 *)

\* The regular files of the tree with a recognized name whose path passes
\* through no node_modules and no directory whose name starts with a dot.
DiscoverableFiles ==
  {e.path : e \in {f \in tree :
     /\ f.kind = "file"
     /\ \E i \in DOMAIN CONFIG_FILE_NAMES : CONFIG_FILE_NAMES[i] = basename(f.path)
     /\ \A k \in 1..(Len(f.path) - 1) :
          f.path[k] # "node_modules" /\ ~StartsWithDot(f.path[k])}}

\* C16: findTSConfigs returns exactly the discoverable files, each once.
C16_DiscoveryExclusion ==
  dpc = "returned" =>
    /\ Range(scanned) = DiscoverableFiles
    /\ Len(scanned) = Cardinality(DiscoverableFiles)

\* The tree holds configuration files under node_modules, under a hidden
\* directory and under a directory bearing a recognized name; the scan has
\* returned the last one and another one two directories down.
C16_Witness ==
  /\ dpc = "returned"
  /\ Entry(<<"node_modules", "tsconfig.json">>, "file") \in tree
  /\ Entry(<<".git", "tsconfig.json">>, "file") \in tree
  /\ Entry(<<"tsconfig.json", "lib", "jsconfig.json">>, "file") \in tree
  /\ Range(scanned) =
       {<<"tsconfig.json", "lib", "jsconfig.json">>, <<"tsconfig.json", "tsconfig.node.json">>}

InitStructure ==
  MergeIdle /\ FoldIdle /\ ValidateIdle /\ IssueIdle /\ DiscoverIdle /\ StructureInit
    /\ AnalyzerIdle

SpecStructure == InitStructure /\ [][StructureNext]_vars

----------------------------------------------------------------------------
(* Claims about analyzeProjectStructure, checked under SpecStructure.      *)

\* The number of returned messages that name file.
NamingCount(file) == Count(structureAnalysis, "  - " \o file)

\* C14 as stated: exactly one message names each declared file that is absent
\* from the structure's file list, and none names a declared file that is present.
C14_OneMessagePerMissingFile ==
  (spc = "done" /\ Has(tsconfig, "files")) =>
    \A file \in Range(tsconfig["files"]) :
      NamingCount(file) = IF file \in Range(structure.files) THEN 0 ELSE 1

\* C14, amended: a declared file that is absent from the structure's file list
\* is named by one message per entry of the list that declares it (once when
\* it is declared once), in the order of the list and after one heading; no
\* message names a declared file that is present; with files ["src/a.ts"] and a
\* structure without src/a.ts exactly one message names that file.
C14_StructureCrossCheck ==
  (spc = "done" /\ Has(tsconfig, "files")) =>
    LET files == tsconfig["files"]
        Absent(file) == file \notin Range(structure.files)
        absent == SelectSeq(files, Absent)
        filesPart == SubSeq(structureAnalysis, 1,
                            IF absent = <<>> THEN 0 ELSE Len(absent) + 1)
    IN /\ \A file \in Range(files) :
            NamingCount(file) = IF Absent(file) THEN Count(files, file) ELSE 0
       /\ absent # <<>> =>
            /\ Len(structureAnalysis) >= Len(absent) + 1
            /\ \A i \in DOMAIN absent : filesPart[i + 1] = "  - " \o absent[i]
       /\ (files = <<"src/a.ts">> /\ Absent("src/a.ts")) =>
            /\ NamingCount("src/a.ts") = 1
            /\ filesPart =
                 <<"The following files specified in 'files' are missing from the project:",
                   "  - src/a.ts">>

\* The configuration declares one absent and one present file, next to include
\* and exclude patterns, and the analysis has returned.
C14_Witness ==
  /\ spc = "done"
  /\ Has(tsconfig, "files")
  /\ Has(tsconfig, "include")
  /\ Has(tsconfig, "exclude")
  /\ tsconfig["files"] = <<"src/a.ts", "src/b.ts">>
  /\ structure.files = <<"src/b.ts", "dist/a.js">>
  /\ Len(structureAnalysis) = 4

\* The number of files of the structure that some pattern of the list matches.
MatchCount(patterns) ==
  Cardinality({i \in DOMAIN structure.files :
                 \E p \in DOMAIN patterns : minimatch(structure.files[i], patterns[p])})

IncludeMessage(n) == "Found " \o IndexString(n) \o " files matching 'include' patterns."
ExcludeWarning(n) == "Warning: Found " \o IndexString(n) \o " files matching 'exclude' patterns."

\* The places of the messages of one kind in the returned list.
IncludePlaces ==
  {m \in DOMAIN structureAnalysis :
     \E n \in 0..Len(structure.files) : structureAnalysis[m] = IncludeMessage(n)}
ExcludePlaces ==
  {m \in DOMAIN structureAnalysis :
     \E n \in 0..Len(structure.files) : structureAnalysis[m] = ExcludeWarning(n)}

\* C27: with an include list there is exactly one count message, whose number
\* is the number of structure files that some include pattern matches (0
\* included), and without one there is none; with an exclude list there is a
\* warning exactly when some structure file matches some exclude pattern; the
\* messages come in the order missing files, include count, exclude warning.
C27_PatternStatistics ==
  spc = "done" =>
    /\ IF Has(tsconfig, "include")
       THEN /\ Cardinality(IncludePlaces) = 1
            /\ \A m \in IncludePlaces :
                 structureAnalysis[m] = IncludeMessage(MatchCount(tsconfig["include"]))
       ELSE IncludePlaces = {}
    /\ IF Has(tsconfig, "exclude") /\ MatchCount(tsconfig["exclude"]) >= 1
       THEN /\ Cardinality(ExcludePlaces) = 1
            /\ \A m \in ExcludePlaces :
                 structureAnalysis[m] = ExcludeWarning(MatchCount(tsconfig["exclude"]))
       ELSE ExcludePlaces = {}
    /\ \A m \in DOMAIN structureAnalysis :
         /\ m \in IncludePlaces =>
              \A n \in (m + 1)..Len(structureAnalysis) : n \in ExcludePlaces
         /\ m \in ExcludePlaces => m = Len(structureAnalysis)
         /\ m \notin IncludePlaces \cup ExcludePlaces =>
              \A n \in 1..(m - 1) : n \notin IncludePlaces \cup ExcludePlaces

\* One declared file is missing, two files match the include patterns and one
\* the exclude pattern: four messages in this order.
C27_Witness ==
  /\ spc = "done"
  /\ structure.files = <<"src/b.ts", "dist/a.js">>
  /\ structureAnalysis =
       <<"The following files specified in 'files' are missing from the project:",
         "  - src/a.ts",
         "Found 2 files matching 'include' patterns.",
         "Warning: Found 1 files matching 'exclude' patterns.">>

\* The include pattern matches no file of the structure, and the count
\* message says 0.
C27_WitnessZero ==
  /\ spc = "done"
  /\ Has(tsconfig, "include")
  /\ structure.files = <<"dist/a.js">>
  /\ structureAnalysis = <<"Found 0 files matching 'include' patterns.">>

InitAnalyzer ==
  MergeIdle /\ FoldIdle /\ ValidateIdle /\ IssueIdle /\ DiscoverIdle /\ StructureIdle
    /\ AnalyzerInit

SpecAnalyzer == InitAnalyzer /\ [][AnalyzerNext]_vars

\* The steps of the program, and the steps of the operator.
ProgramStep ==
  \/ StartAnalysis
  \/ ReadAndParseConfig
  \/ ReturnNoConfiguration
  \/ ValidateOptions
  \/ AskShouldCorrect
  \/ AskCorrection
  \/ CorrectError
  \/ RejectError
  \/ HandleReturn
  \/ DetectCommonIssues
  \/ AutoFix
  \/ ReturnResult
  \/ AnalysisThrows

OperatorStep == AnswerShouldCorrect \/ AnswerCorrection

\* compilerOptionsSchema accepts the compilerOptions of cfg.
SchemaAccepts(cfg) ==
  Has(cfg, "compilerOptions") /\ validateCompilerOptions(cfg["compilerOptions"]).valid

\* handleValidationErrors on its own: validateCompilerOptions has just called
\* it with the errors of a configuration the schema rejects; the store of
\* promptUser is empty or holds answers an earlier analysis saved.
SavedInputs ==
  {EmptyObject,
   ("correct_error_target" :> "yes") @@ ("correction_target" :> "es2022"),
   ("correct_error_lib.0" :> "no")}

HandleInit(otherErrors) ==
  /\ cliOptions \in [ignoreErrors : {FALSE}, autoFix : BOOLEAN]
  /\ analysisCount = 1
  /\ \E p \in {q \in Projects : q.failAt = "none" /\ ~SchemaAccepts(LoadedConfig(q).value)} :
       /\ projectRoot = p
       /\ thisConfig = LoadedConfig(p)
       /\ thisStructure = LoadedStructure(p)
       /\ effective = LoadedConfig(p)
       /\ errors = validateCompilerOptions(LoadedConfig(p).value["compilerOptions"]).errors
                   \o otherErrors
  /\ errIdx = 1
  /\ correctedErrors = <<>>
  /\ shouldCorrect = ""
  /\ correction = ""
  /\ outstanding = {}
  /\ prompts = <<>>
  /\ userInputs \in SavedInputs
  /\ validated = [valid |-> TRUE, errors |-> <<>>]
  /\ result = NoResult
  /\ autoFixIdx = 0
  /\ apc = "handle"

CorrectorInit == HandleInit(<<>>)

\* An issue whose path runs through a key that no compilerOptions of the
\* modelled projects has: the intermediate segment of the write is absent.
ForeignIssue == ZodIssue(<<"paths", "0">>, "invalid_type", "Expected string, received number")

\* handleValidationErrors called with a list that ends with such an issue.
WriteInit == HandleInit(<<ForeignIssue>>)

CorrectorNext ==
  \/ AskShouldCorrect
  \/ AnswerShouldCorrect
  \/ AskCorrection
  \/ AnswerCorrection
  \/ CorrectError
  \/ RejectError
  \/ HandleReturn

InitCorrector ==
  MergeIdle /\ FoldIdle /\ ValidateIdle /\ IssueIdle /\ DiscoverIdle /\ StructureIdle
    /\ CorrectorInit

InitWrite ==
  MergeIdle /\ FoldIdle /\ ValidateIdle /\ IssueIdle /\ DiscoverIdle /\ StructureIdle
    /\ WriteInit

SpecCorrectionWrite == InitWrite /\ [][CorrectorNext]_vars

\* The program runs on whenever it can (one thread, no await but on the answers
\* and on file operations that complete), and the operator answers every
\* question put.
SpecCorrector ==
  InitCorrector /\ [][CorrectorNext]_vars
    /\ WF_vars(CorrectorNext /\ ProgramStep) /\ WF_vars(OperatorStep)

----------------------------------------------------------------------------
(* Claims about the analyzer, checked under SpecAnalyzer.                  *)

\* The answer promptUser returned under id in this analysis.
AnswerTo(id) ==
  LET i == CHOOSE i \in DOMAIN prompts : prompts[i].id = id IN prompts[i].answer

\* The errors handleValidationErrors has dealt with so far.
HandledErrors == SubSeq(errors, 1, errIdx - 1)

\* C11: the list handleValidationErrors builds (and returns) holds exactly the
\* errors whose yes/no question was not answered yes, in their original order,
\* each as a custom error with the message "<path>: <original message>".
C11_CorrectorOutcome ==
  errors # <<>> =>
    LET Declined(error) ==
          AnswerTo("correct_error_" \o JoinPath(error.path)) \notin {"yes", "Yes"}
        declined == SelectSeq(HandledErrors, Declined)
    IN /\ Len(correctedErrors) = Len(declined)
       /\ \A i \in DOMAIN declined :
            /\ correctedErrors[i].message
                 = JoinPath(declined[i].path) \o ": " \o declined[i].message
            /\ correctedErrors[i].path = <<>>
            /\ correctedErrors[i].code = "custom"
       /\ apc = "validated" => validated.errors = correctedErrors

\* Of three errors the operator declined the first and the third and agreed to
\* correct the second; handleValidationErrors has returned the other two.
C11_Witness ==
  /\ apc = "validated"
  /\ Len(errors) = 3
  /\ Len(prompts) = 4
  /\ prompts[2].id = "correct_error_lib.2"
  /\ prompts[2].answer = "Yes"
  /\ Len(correctedErrors) = 2
  /\ correctedErrors[1].message = "lib.0: Expected string, received number"
  /\ correctedErrors[2].message = "strict: Expected boolean, received string"

\* C12 as stated: when the validation of the effective configuration failed and
\* the failure was not resolved by correction, analyzeConfig returns, with the
\* messages of the structure analysis and of the issue detection, valid = false
\* and the messages of the validation failure.
C12_ValidationNeverAborts ==
  (effective.present /\ ~validated.valid /\ apc \in {"returned", "threw"}) =>
    /\ apc = "returned"
    /\ result.valid = FALSE
    /\ \E i \in DOMAIN result.messages :
         result.messages[i] \in
           {"Project structure analysis:",
            "Warning: Project structure analysis skipped - no structure data available."}
    /\ \E i \in DOMAIN result.messages :
         result.messages[i] \in {"Common issues detected:", "No common issues detected."}
    /\ \A i \in DOMAIN validated.errors :
         validated.errors[i].message \in Range(result.messages)

\* C13: a failure while loading leaves analyzeTSConfig as an error, without a
\* result, when ignoreErrors is unset; with ignoreErrors it is swallowed, and
\* when no configuration was obtained analyzeConfig returns valid = false, the
\* single message "No configuration found", an empty report and no fixes.
C13_LoadFailure ==
  (analysisCount > 0 /\ apc # "read") =>
    /\ (projectRoot.failAt # "none" /\ ~cliOptions.ignoreErrors) =>
         (apc = "threw" /\ ~result.returned)
    /\ (projectRoot.failAt # "none" /\ cliOptions.ignoreErrors) => apc # "threw"
    /\ ~effective.present =>
         /\ projectRoot.failAt = "merge"
         /\ apc \in {"threw", "analyze", "returned"}
         /\ apc = "returned" =>
              /\ result.valid = FALSE
              /\ result.messages = <<"No configuration found">>
              /\ result.report = <<>>
              /\ result.suggestedFixes = <<>>

\* With ignoreErrors the merge failed and analyzeConfig has returned.
C13_Witness ==
  /\ apc = "returned"
  /\ cliOptions.ignoreErrors
  /\ projectRoot.failAt = "merge"
  /\ result.returned
  /\ result.messages = <<"No configuration found">>

\* The first index of message in the messages of the result, 0 if absent.
MessageIndex(message) ==
  IF message \in Range(result.messages)
  THEN CHOOSE i \in DOMAIN result.messages :
         /\ result.messages[i] = message
         /\ \A j \in 1..(i - 1) : result.messages[j] # message
  ELSE 0

\* C15: the analysis of the example project returns valid = true, the structure
\* analysis adds no message after its heading, and the three named issues are
\* detected; in every analysis, a passed validation gives valid = true whatever
\* issues are detected.
C15_EndToEnd ==
  /\ (projectRoot = ExampleProject /\ analysisCount > 0) => apc # "threw"
  /\ (projectRoot = ExampleProject /\ apc = "returned") =>
       /\ result.valid = TRUE
       /\ MessageIndex("Project structure analysis:") > 0
       /\ MessageIndex("Common issues detected:")
            = MessageIndex("Project structure analysis:") + 1
       /\ \A d \in {"Strict mode is not enabled",
                    "Target is set to an outdated ECMAScript version",
                    "Module is not set to ESNext"} :
            /\ \E i \in DOMAIN result.suggestedFixes : result.suggestedFixes[i].description = d
            /\ ("- " \o d) \in Range(result.messages)
  /\ (apc = "returned" /\ effective.present /\ validated.valid) => result.valid = TRUE

\* The example project was analyzed without ignoreErrors: thirteen issues were
\* detected and the result is valid.
C15_Witness ==
  /\ apc = "returned"
  /\ projectRoot = ExampleProject
  /\ ~cliOptions.ignoreErrors
  /\ Len(result.suggestedFixes) = 13
  /\ result.valid

\* C17: a prompt is issued only when the schema rejected the effective
\* configuration and ignoreErrors is unset; when the schema accepts it or
\* ignoreErrors is set, there is no prompt and, up to the auto-fix loop, the
\* held configuration is the effective one.
C17_PromptGating ==
  /\ prompts # <<>> =>
       /\ effective.present
       /\ ~SchemaAccepts(effective.value)
       /\ ~cliOptions.ignoreErrors
  /\ (/\ effective.present
      /\ SchemaAccepts(effective.value) \/ cliOptions.ignoreErrors
      /\ apc \in {"analyze", "handle", "asked", "validated", "report"}) =>
       /\ prompts = <<>>
       /\ thisConfig = effective

\* With ignoreErrors the schema rejected the configuration, and the validation
\* has returned its errors without a prompt.
C17_Witness ==
  /\ apc = "validated"
  /\ cliOptions.ignoreErrors
  /\ effective.present
  /\ Has(effective.value, "compilerOptions")
  /\ ~SchemaAccepts(effective.value)
  /\ ~validated.valid
  /\ prompts = <<>>

\* C18 as stated: no answer used by an analysis comes from what an earlier
\* analysis saved in the store of promptUser: every question of this analysis is
\* put to the operator, so its prompts, corrections and validity depend on this
\* analysis only.
C18_Isolation ==
  \A i \in DOMAIN prompts : ~prompts[i].saved

\* The ids under which handleValidationErrors asks about the i-th error.
DecisionId(i) == "correct_error_" \o JoinPath(errors[i].path)
ValueId(i) == "correction_" \o JoinPath(errors[i].path)

\* The answered promptUser calls from the j-th on are those of the errors from
\* the i-th on, in order: one yes/no question each, followed, when and only when
\* its answer is yes in any letter case, by one question for the value.
RECURSIVE FollowsProtocol(_, _)
FollowsProtocol(i, j) ==
  IF j > Len(prompts) THEN TRUE
  ELSE /\ i <= Len(errors)
       /\ prompts[j].id = DecisionId(i)
       /\ IF prompts[j].answer \in {"yes", "Yes"}
          THEN \/ j + 1 > Len(prompts)
               \/ prompts[j + 1].id = ValueId(i) /\ FollowsProtocol(i + 1, j + 2)
          ELSE FollowsProtocol(i + 1, j + 1)

\* The errors whose yes/no question has been answered, and of these the ones
\* answered yes and the ones whose value question has been answered.
DecidedErrors ==
  {i \in DOMAIN errors : \E j \in DOMAIN prompts : prompts[j].id = DecisionId(i)}
AgreedErrors ==
  {i \in DecidedErrors : AnswerTo(DecisionId(i)) \in {"yes", "Yes"}}
ResolvedErrors ==
  {i \in AgreedErrors : \E j \in DOMAIN prompts : prompts[j].id = ValueId(i)}

\* The state of the corrector agrees with its state machine.
CorrectorProtocol ==
  /\ Cardinality(outstanding) <= 1
  /\ outstanding # {} <=> apc \in {"awaitDecision", "awaitValue"}
  /\ apc = "awaitDecision" => outstanding = {DecisionId(errIdx)}
  /\ apc = "awaitValue" => outstanding = {ValueId(errIdx)}
  /\ outstanding # {} => ~ENABLED ProgramStep
  /\ errors # <<>> =>
       /\ FollowsProtocol(1, 1)
       /\ DecidedErrors =
            1..(IF apc \in {"asked", "awaitValue", "answered"} THEN errIdx ELSE errIdx - 1)
       /\ Len(prompts) = Cardinality(DecidedErrors) + Cardinality(ResolvedErrors)
       /\ ResolvedErrors = {i \in AgreedErrors : i < errIdx \/ apc = "answered"}
       /\ Len(correctedErrors)
            = Cardinality({i \in DecidedErrors \ AgreedErrors : i < errIdx})
       /\ apc = "validated" =>
            /\ DecidedErrors = DOMAIN errors
            /\ ResolvedErrors = AgreedErrors
            /\ Len(correctedErrors) = Len(errors) - Cardinality(ResolvedErrors)

\* handleValidationErrors moves from one error to the next one of the list.
CorrectorInOrder ==
  (errors # <<>> /\ errors' = errors) => errIdx' \in {errIdx, errIdx + 1}

\* C22: the corrector follows its state machine: the errors are handled one at
\* a time in list order, at most one promptUser call is outstanding, each error
\* gets one yes/no question and, exactly when the answer is yes in any letter
\* case, one value question before the next error is asked; while a question is
\* outstanding no step of the program is enabled; and when every question is
\* answered, handleValidationErrors returns with every error resolved or
\* rejected.
C22_CorrectorStateMachine ==
  /\ []CorrectorProtocol
  /\ [][CorrectorInOrder]_vars
  /\ (apc \in {"handle", "awaitDecision", "awaitValue", "asked", "answered"})
       ~> (apc = "validated")

\* Three errors were handled with questions put to the operator: the first was
\* rejected, the second resolved after the answer "Yes", the third rejected.
C22_Witness ==
  /\ apc = "validated"
  /\ Len(errors) = 3
  /\ \A j \in DOMAIN prompts : ~prompts[j].saved
  /\ Len(prompts) = 4
  /\ prompts[1].answer = "no"
  /\ prompts[2].answer = "Yes"
  /\ prompts[3].id = "correction_lib.2"
  /\ ResolvedErrors = {2}
  /\ Len(correctedErrors) = 2

\* What a step of handleValidationErrors that writes a correction changes: the
\* value at the path of the current error becomes the string entered, and every
\* other key of compilerOptions, every other element of the array and every
\* top-level key stay; when the first segment of a two-segment path is absent,
\* nothing changes.
CorrectionWriteFrame ==
  (apc = "answered" /\ apc' = "handle") =>
    LET path == errors[errIdx].path
        before == thisConfig.value
        after == thisConfig'.value
        co == before["compilerOptions"]
        co2 == after["compilerOptions"]
    IN /\ DOMAIN after = DOMAIN before
       /\ \A k \in (DOMAIN before) \ {"compilerOptions"} : after[k] = before[k]
       /\ IF Len(path) = 1
          THEN /\ DOMAIN co2 = (DOMAIN co) \cup {path[1]}
               /\ co2[path[1]] = Str(correction)
               /\ \A k \in (DOMAIN co) \ {path[1]} : co2[k] = co[k]
          ELSE IF Has(co, path[1])
               THEN /\ DOMAIN co2 = DOMAIN co
                    /\ \A k \in (DOMAIN co) \ {path[1]} : co2[k] = co[k]
                    /\ co2[path[1]].t = "array"
                    /\ Len(co2[path[1]].a) = Len(co[path[1]].a)
                    /\ \A n \in DOMAIN co[path[1]].a :
                         co2[path[1]].a[n] =
                           IF IndexString(n - 1) = path[2]
                           THEN Str(correction) ELSE co[path[1]].a[n]
               ELSE after = before

\* The errors the operator agreed to correct are not in the list returned.
CorrectedAreDropped ==
  (apc = "validated" /\ errors # <<>>) =>
    \A i \in AgreedErrors :
      \A n \in DOMAIN validated.errors :
        validated.errors[n].message # JoinPath(errors[i].path) \o ": " \o errors[i].message

\* C23: when the operator agrees to correct an error, the value is written into
\* compilerOptions at the error's path and nowhere else; when an intermediate
\* segment of the path is absent the configuration is left as it is; in both
\* cases the error is not in the final list.
C23_CorrectionWrite ==
  [][CorrectionWriteFrame]_vars /\ []CorrectedAreDropped

\* The operator agreed to correct the invalid target and the issue whose
\* intermediate segment is absent: the target was written, no paths key was
\* created, and no error is left.
C23_Witness ==
  /\ apc = "validated"
  /\ projectRoot.merged = InvalidTargetConfig
  /\ Len(errors) = 2
  /\ errors[1].path = <<"target">>
  /\ errors[2] = ForeignIssue
  /\ AgreedErrors = {1, 2}
  /\ \A j \in DOMAIN prompts : ~prompts[j].saved
  /\ thisConfig.value["compilerOptions"]["target"] = Str("dom")
  /\ ~Has(thisConfig.value["compilerOptions"], "paths")
  /\ thisConfig.value["compilerOptions"]["strict"] = effective.value["compilerOptions"]["strict"]
  /\ validated = [valid |-> TRUE, errors |-> <<>>]

\* C24 as stated: whenever analyzeConfig returns valid = true, the
\* compilerOptions of the configuration it holds when it returns pass
\* validateCompilerOptions.
C24_VerdictSound ==
  (apc = "returned" /\ result.valid /\ thisConfig.present) =>
    SchemaAccepts(thisConfig.value)

====
